---------------------------- MODULE Spec2Model ----------------------------
(***************************************************************************)
(* Model of the Neptune host agent's event pipeline: the SQS worker        *)
(* (worker.RunLoop), the supervisor's fan-out loop (cmd.MainLoop), the     *)
(* executor (executor.ExecuteAction / execute), the event store            *)
(* (state.InitializeEventsFile) and the status register                    *)
(* (api.UpdateStatus).                                                     *)
(*                                                                         *)
(* Time is the local clock in milliseconds.  SQS, the file system and      *)
(* the subprocess are the environment: their answers are chosen            *)
(* nondeterministically, and the calls the agent makes on them are         *)
(* recorded (deleteCalls, visCalls, spawnCount).                           *)
(***************************************************************************)
EXTENDS Integers, Sequences, FiniteSets, TLC

(***************************************************************************)
(* Bounds of the model.                                                    *)
(***************************************************************************)
\* number of steps the clock takes in one run
MaxTicks == 1
\* number of registration responses the service gives after the first one
MaxRegistrations == 1
\* longest run of failed polls
MaxFailedRun == 20
\* number of errors the components report in one run
MaxReports == 12
\* number of registration attempts at start-up that fail
MaxAttempts == 11

(***************************************************************************)
(* Program constants.                                                      *)
(***************************************************************************)
\* executor.go:35, milliseconds
stalenessTimeout == 600000
\* metadata.go:159, eventCleanupInterval in milliseconds
eventCleanupInterval == 1800000
\* api.go:19-24
ConfigReadFailed == 1
ConfigReadSucceeded == 2
RegistrationFailed == 4
RegistrationSucceeded == 8
QueuePollingSucceeded == 16
Active == 32
\* cmd/agent.go:195,196: capacity of the events and actionOutputs channels
eventsCap == 10
actionOutputsCap == 10
\* worker line 28
numSQSFailuresBeforeReregistration == 10
\* cmd/agent/main.go:200,201: capacity of regInfoUpdatesCh and triggerReregistrationCh
regInfoUpdatesCap == 5
triggerReregistrationCap == 5
\* executor.go:31, bytes
maxActionOutputSize == 10485760
\* api/errors.go:18: capacity of ErrorsChannel
ErrorsChannelCap == 10

\* The granularity of the modelled clock (one ticker period) and the clock
\* value at which the agent process starts, in milliseconds.
ClockStep == eventCleanupInterval
StartTime == eventCleanupInterval

\* regInfo.AgentId of this agent, and the id of a sibling agent
LocalAgent == "A1"
OtherAgent == "A2"

EventIds == {"E1", "E2"}

VARIABLES
    now,          \* local clock, ms
    ticks,        \* clock steps taken
    tickPending,  \* a value is waiting in eventReloadCh
    status,       \* api.status
    lastUpdate,   \* <<status before, newStatus>> of the last UpdateStatus call
    deliveries,   \* messages received from SQS so far; the index is the receipt handle
    batch,        \* receipt handles of resp.Messages the worker has not handled yet
    deleteCalls,  \* receipt handle -> number of DeleteMessage calls
    visCalls,     \* set of <<receipt handle, timeout>>: ChangeMessageVisibility calls
    events,       \* the events channel (receipt handles of emitted events)
    emitted,      \* receipt handles ever sent on the events channel
    loopVar,      \* the fan-out loop's variable `event`
    tasks,        \* executor goroutines started by the fan-out loop
    index,        \* state.eventIdToTimestamp: eventId -> unix seconds
    file,         \* the .events file
    spc,          \* position of the event store goroutine
    spending,     \* eventId received from eventPersistCh, not yet written
    githubKey,    \* agentConfig.GithubApiKey
    spawnCount,   \* eventId -> number of subprocesses started
    actionOutputs, \* the actionOutputs channel
    wtrace,       \* receipt handle -> the calls the worker made for that message, in order
    \* registration and queue client
    regInfo,      \* *registrationInfo: credential field -> the registration it came from
    response,     \* the registration response registerAgent is copying
    toCopy,       \* the fields of *response not yet stored in *registrationInfo
    regCount,     \* registration responses received so far
    regInfoUpdatesCh,        \* number of "updated" values in the channel
    triggerReregistrationCh, \* number of values in the channel
    signalled,    \* the newest registration whose "updated" has been sent
    wpc,          \* position of the worker's loop: "select" or "polling"
    svc,          \* the worker's client: credential field -> registration
    numFailures,  \* RunLoop's numFailures
    shouldLogError,          \* RunLoop's shouldLogError
    failedRun,    \* failed polls since the last successful poll
    pollReplaced, \* the newest registration fully stored when the poll in flight was started
    delClient,    \* the client the last DeleteMessage built
    \* one subprocess and its process group
    kpc,          \* position of execute() after Start
    wgpc,         \* position of the goroutine that calls cmd.Wait()
    leader,       \* the direct child: "running", "zombie" (exited, not reaped) or "reaped"
    child,        \* a process the runbook forked: "none", "running" or "exited"
    traps,        \* the processes that catch or ignore SIGTERM
    childInGroup, \* the forked process stays in the leader's process group
    termSent,     \* the processes SIGTERM was delivered to
    groupAtKill,  \* the live processes of the group when KillCommand was called
    kout,         \* what execute() returned
    \* the error channel (api/errors.go)
    ErrorsChannel, \* the messages buffered in the channel, oldest first
    rpc,          \* per reporting path: "idle", or "send" (at `ErrorsChannel <- err`)
    upc,          \* the uploading goroutine: "range" (receiving) or "post" (in uploadError)
    reports,      \* number of errors reported so far
    \* one call of ExecuteAction from writeToTmpFile on (executor.go)
    xpc,          \* where the call is
    tmpFile,      \* the temp script file exists
    deferred,     \* `defer os.Remove(tmpFile)` has been executed
    stdout,       \* what the subprocess wrote to stdout
    stderr,       \* what the subprocess wrote to stderr
    xout,         \* the ActionOutputMessage sent, or NoMessage
    \* one call of api.joinURL
    urlIn,        \* the arguments: [endpoint, args]
    urlOut,       \* the string returned, or NoURL before the call
    \* start-up (MainLoop up to the start of the loops)
    bpc,          \* where MainLoop is
    flags,        \* the command line: [endpoint, api_key, config]
    cfgFile,      \* what the config file holds, or Unreadable
    absOk,        \* filepath.Abs of the binary's directory succeeds
    configFilePath, \* the variable configFilePath
    neptuneConfig,  \* the merged Neptune section
    agentConfig,  \* the Agent section in use
    attempts,     \* the counter i of the registration loop
    sleeps,       \* the delays slept so far, in seconds
    started,      \* the loops started
    errorChannel, \* number of errors sent on errorChannel
    exitCode,     \* the code of os.Exit, or -1
    registrationInfo, \* the AgentId of the response MainLoop keeps, "" for none
    \* one call of ConcurrentMap.GetShard
    shardKey,     \* the key, a sequence of bytes
    intSize,      \* the width of int on the build target, in bits
    shardOut,     \* what the indexing did, or NoShard before the call
    \* the event store's file format: one run of the store and a restart
    rtIndex,      \* eventIdToTimestamp of the run; a key is a string as its tokens
    rtFile,       \* the lines of the .events file, each a string as its tokens
    rtCount,      \* persist requests served
    rtLoaded,     \* what reloadEventIds of the next run built, or NotLoaded
    \* the worker's loop and the supervisor's loop, and the channels between them
    loopWorker,   \* where RunLoop is: "select", "poll" or "send"
    loopSupervisor, \* where the supervisor is: "select", "beat", "upload", "register", "notify"
    loopTriggerCh,  \* values waiting in triggerReregistrationCh
    loopUpdatesCh,  \* values waiting in regInfoUpdatesCh
    loopFailures, \* RunLoop's numFailures
    loopLogError, \* RunLoop's shouldLogError
    loopExecuting \* ExecuteAction calls that have emitted and not yet returned

pipelineVars == <<now, ticks, tickPending, status, lastUpdate, deliveries, batch,
                  deleteCalls, visCalls, events, emitted, loopVar, tasks, index, file,
                  spc, spending, githubKey, spawnCount, actionOutputs, wtrace>>

\* everything of the pipeline but the status register
pipelineRest == <<now, ticks, tickPending, deliveries, batch, deleteCalls, visCalls,
                  events, emitted, loopVar, tasks, index, file, spc, spending,
                  githubKey, spawnCount, actionOutputs, wtrace>>

regVars == <<regInfo, response, toCopy, regCount, regInfoUpdatesCh,
             triggerReregistrationCh, signalled, wpc, svc, numFailures,
             shouldLogError, failedRun, pollReplaced, delClient>>

killVars == <<kpc, wgpc, leader, child, traps, childInGroup, termSent, groupAtKill, kout>>

errVars == <<ErrorsChannel, rpc, upc, reports>>

\* the components outside the pipeline, the registration and the subprocess
execVars == <<xpc, tmpFile, deferred, stdout, stderr, xout>>

urlVars == <<urlIn, urlOut>>

bootVars == <<bpc, flags, cfgFile, absOk, configFilePath, neptuneConfig, agentConfig,
              attempts, sleeps, started, errorChannel, exitCode, registrationInfo>>

shardVars == <<shardKey, intSize, shardOut>>

\* the components that are one call of a function
rtVars == <<rtIndex, rtFile, rtCount, rtLoaded>>
loopVars == <<loopWorker, loopSupervisor, loopTriggerCh, loopUpdatesCh, loopFailures,
              loopLogError, loopExecuting>>
libVars == <<shardVars, rtVars, loopVars>>

extVars == <<errVars, execVars, urlVars, bootVars, libVars>>

\* the frame of each of those components
errRest == <<pipelineVars, regVars, killVars, execVars, urlVars, bootVars, libVars>>
execRest == <<pipelineVars, regVars, killVars, errVars, urlVars, bootVars, libVars>>
urlRest == <<pipelineVars, regVars, killVars, errVars, execVars, bootVars, libVars>>
\* start-up changes the status register and reports errors
bootRest == <<pipelineRest, regVars, killVars, rpc, upc, reports, execVars, urlVars,
              libVars>>
libRest == <<pipelineVars, regVars, killVars, errVars, execVars, urlVars, bootVars>>
\* the loops change the status register
loopRest == <<pipelineRest, regVars, killVars, errVars, execVars, urlVars, bootVars,
              shardVars, rtVars>>

vars == <<pipelineVars, regVars, killVars, extVars>>


(***************************************************************************)
(* Queue messages.  A message carries the attributes agentId and signature *)
(* (either may be missing) and a body.  The body is a JSON Event           *)
(* ("ok"), JSON whose timeout field has the wrong type ("partial":         *)
(* json.Unmarshal reports an error but has filled the other fields), or    *)
(* not JSON at all ("garbage").  The signature attribute is absent, not    *)
(* base64 ("garbled"), base64 that does not verify ("forged") or the       *)
(* signature of the body under the pinned key ("signed").                  *)
(***************************************************************************)
NoAttr == "<absent>"
AgentAttrs == {NoAttr, LocalAgent, OtherAgent}
SigAttrs == {NoAttr, "garbled", "forged", "signed"}
Bodies == {"ok", "partial", "garbage"}
\* producer timestamps (ms): one that is exactly stalenessTimeout old when the
\* agent starts, and one that is as old one clock step later
Timestamps == {StartTime - stalenessTimeout, StartTime + ClockStep - stalenessTimeout}
Sources == {"raw", "github"}
\* event.timeout in seconds
Timeouts == {5}

\* security.publicKey is set by init(), or the process has exited
publicKeyLoaded == TRUE

\* Variant of VerifyMessage that only decodes the signature and never checks
\* it against the body (sensitivity variant for C2).
VerifyMessageNoCheck(body, signature) ==
    IF signature = "garbled" THEN <<FALSE, "nil">> ELSE <<TRUE, "nil">>

\* security.VerifyMessage: <<valid, err>>
VerifyMessage(body, signature) ==
    IF ~publicKeyLoaded THEN <<FALSE, "Null public key">>
    ELSE IF signature = "garbled" THEN <<FALSE, "nil">>
    ELSE IF signature # "signed" THEN <<FALSE, "nil">>
    ELSE <<TRUE, "nil">>

\* The worker reads the body only of a message with agentId attribute = local
\* and a signature that verifies, and the executor reads eventId, timestamp
\* and the runbook source only of an event the worker emitted; the fields
\* nobody reads are fixed.
ReachesDecode(m) == m.attr = LocalAgent /\ m.sig = "signed"
ReachesExecutor(m) == ReachesDecode(m) /\ m.body # "garbage" /\ m.agentId = LocalAgent
Messages ==
    { m \in [attr : AgentAttrs, sig : SigAttrs, body : Bodies,
             agentId : {LocalAgent, OtherAgent}, eventId : EventIds,
             ts : Timestamps, src : Sources, timeout : Timeouts] :
        /\ m.attr # LocalAgent => m.sig = "signed"
        /\ ~ReachesDecode(m) => m.body = "ok" /\ m.agentId = LocalAgent
        /\ m.body = "garbage" => m.agentId = LocalAgent
        /\ ~ReachesExecutor(m) =>
              m.eventId = "E1" /\ m.ts = StartTime - stalenessTimeout /\ m.src = "raw" }

\* api.Event as json.Unmarshal leaves it, with the worker's assignment of
\* ReceiptHandle (worker lines 180-187).  Receipt handle 0 is the empty string.
ZeroEvent ==
    [AgentId |-> "", EventId |-> "", Timestamp |-> 0, RawCommand |-> "",
     GithubFilePath |-> "", Timeout |-> 0, ReceiptHandle |-> 0]
DecodeEvent(m, rh) ==
    IF m.body = "garbage" THEN ZeroEvent
    ELSE [AgentId |-> m.agentId, EventId |-> m.eventId, Timestamp |-> m.ts,
          RawCommand |-> IF m.src = "raw" THEN "cmd" ELSE "",
          GithubFilePath |-> IF m.src = "github" THEN "o/r/p" ELSE "",
          Timeout |-> IF m.body = "ok" THEN m.timeout ELSE 0,
          ReceiptHandle |-> IF m.body = "ok" THEN rh ELSE 0]

\* the event the worker built from delivery rh
EventOf(rh) == DecodeEvent(deliveries[rh], rh)

\* A "plain" event: decodable, with a raw command and the older timestamp.
Plain(m) ==
    ReachesExecutor(m) /\ m.body = "ok" /\ m.src = "raw"
        /\ m.ts = StartTime - stalenessTimeout

\* What SQS delivers in one run: any one message, or two messages each of
\* which is a plain event or does not reach the executor (so two events with
\* the same eventId, two with different eventIds, and every rejected message
\* next to an event all occur).  The first of two events is E1.
Deliverable(ds) ==
    /\ Len(ds) <= 2
    /\ Len(ds) = 2 =>
          /\ \A i \in 1 .. 2 : Plain(ds[i]) \/ ~ReachesExecutor(ds[i])
          /\ Plain(ds[1]) /\ Plain(ds[2]) => ds[1].eventId = "E1"

Handles == 0 .. 2

(***************************************************************************)
(* Status register (api.UpdateStatus).                                     *)
(***************************************************************************)
\* Variant of UpdateStatus without the Active guard (sensitivity variant for C9).
UpdateStatusOverwrite(cur, newStatus) == newStatus

\* Variant of UpdateStatus that drops an update to Active (sensitivity variant for C31).
UpdateStatusIgnoresActive(cur, newStatus) == IF newStatus = Active THEN cur ELSE newStatus

UpdateStatus(cur, newStatus) ==
    IF ~(cur = Active /\ newStatus = QueuePollingSucceeded) THEN newStatus ELSE cur

SetStatus(newStatus) ==
    /\ status' = UpdateStatus(status, newStatus)
    /\ lastUpdate' = <<status, newStatus>>

\* worker.DeleteMessage: the call is recorded per receipt handle
DeleteMessage(rh) == deleteCalls' = [deleteCalls EXCEPT ![rh] = @ + 1]

(***************************************************************************)
(* Queue worker (worker.RunLoop).                                          *)
(***************************************************************************)
\* indices of the k messages appended to deliveries
NewHandles(k) == [i \in 1 .. k |-> Len(deliveries) + i]

\* getMessages succeeds with 0, 1 or 2 messages (lines 153-157).  With no
\* message the loop sleeps and polls again.
WorkerPoll ==
    /\ batch = <<>>
    /\ \E k \in 0 .. 2 - Len(deliveries) :
          \E ms \in [1 .. k -> Messages] :
             /\ Deliverable(deliveries \o ms)
             /\ deliveries' = deliveries \o ms
             /\ batch' = NewHandles(k)
    /\ SetStatus(QueuePollingSucceeded)
    /\ UNCHANGED <<now, ticks, tickPending, deleteCalls, visCalls, events, emitted,
                   loopVar, tasks, index, file, spc, spending, githubKey,
                   spawnCount, actionOutputs>>
    /\ UNCHANGED <<wtrace, regVars, killVars, extVars>>

\* Variant of Disposition that deletes a message addressed to another agent
\* (sensitivity variant for C3).
DispositionDeleteOthers(m) ==
    IF m.attr = NoAttr THEN "skip"
    ELSE IF m.attr # LocalAgent THEN "delete"
    ELSE IF m.sig = NoAttr THEN "skip"
    ELSE IF ~(VerifyMessage(m.body, m.sig)[1] /\ VerifyMessage(m.body, m.sig)[2] = "nil")
         THEN "delete"
    ELSE IF DecodeEvent(m, 1).AgentId = LocalAgent THEN "accept"
    ELSE "delete"

\* Variant of Disposition without the test of the payload's agentId
\* (sensitivity variant for C4).
DispositionNoPayloadCheck(m) ==
    IF m.attr = NoAttr THEN "skip"
    ELSE IF m.attr # LocalAgent THEN "release"
    ELSE IF m.sig = NoAttr THEN "skip"
    ELSE IF ~(VerifyMessage(m.body, m.sig)[1] /\ VerifyMessage(m.body, m.sig)[2] = "nil")
         THEN "delete"
    ELSE "accept"

\* Variant of Disposition that releases a message without agentId attribute
\* like a message for another agent (sensitivity variant for C30).
DispositionReleaseMissing(m) ==
    IF m.attr # LocalAgent THEN "release"
    ELSE IF m.sig = NoAttr THEN "skip"
    ELSE IF ~(VerifyMessage(m.body, m.sig)[1] /\ VerifyMessage(m.body, m.sig)[2] = "nil")
         THEN "delete"
    ELSE IF DecodeEvent(m, 1).AgentId = LocalAgent THEN "accept"
    ELSE "delete"

\* What the loop body does with one message (lines 159-220):
\* "skip", "release", "delete" or "accept".
Disposition(m) ==
    IF m.attr = NoAttr THEN "skip"
    ELSE IF m.attr # LocalAgent THEN "release"
    ELSE IF m.sig = NoAttr THEN "skip"
    ELSE IF ~(VerifyMessage(m.body, m.sig)[1] /\ VerifyMessage(m.body, m.sig)[2] = "nil")
         THEN "delete"
    ELSE IF DecodeEvent(m, 1).AgentId = LocalAgent THEN "accept"
    ELSE "delete"

\* Variant of WorkerSteps that emits the event before it extends the
\* visibility (sensitivity variant for C15).
WorkerStepsEmitFirst(m) ==
    IF Disposition(m) = "accept" THEN <<"Verify", "EmitEvent", "Visibility">>
    ELSE IF Disposition(m) = "release" THEN <<"Visibility">>
    ELSE IF Disposition(m) = "delete" THEN <<"Verify", "Delete">>
    ELSE <<>>

\* The calls the loop body makes for one message, in program order:
\* VerifyMessage (line 179), changeMessageVisibility (196 or 218), the send
\* on the events channel (200), DeleteMessage (209 or 214).
WorkerSteps(m) ==
    IF Disposition(m) = "accept" THEN <<"Verify", "Visibility", "EmitEvent">>
    ELSE IF Disposition(m) = "release" THEN <<"Visibility">>
    ELSE IF Disposition(m) = "delete" THEN <<"Verify", "Delete">>
    ELSE <<>>

\* One iteration of `for _, msg := range resp.Messages`.
WorkerHandle ==
    /\ batch # <<>>
    /\ LET rh == Head(batch)
           m == deliveries[rh]
           event == DecodeEvent(m, rh)
           d == Disposition(m)
       IN  /\ batch' = Tail(batch)
           /\ wtrace' = [wtrace EXCEPT ![rh] = WorkerSteps(m)]
           /\ CASE d = "skip" ->
                     UNCHANGED <<deleteCalls, visCalls, events, emitted>>
                [] d = "release" ->
                     /\ visCalls' = visCalls \cup {<<rh, 0>>}
                     /\ UNCHANGED <<deleteCalls, events, emitted>>
                [] d = "delete" ->
                     /\ DeleteMessage(rh)
                     /\ UNCHANGED <<visCalls, events, emitted>>
                [] d = "accept" ->
                     /\ Len(events) < eventsCap
                     /\ visCalls' = visCalls \cup {<<event.ReceiptHandle, event.Timeout + 2>>}
                     /\ events' = Append(events, rh)
                     /\ emitted' = emitted \cup {rh}
                     /\ UNCHANGED deleteCalls
    /\ UNCHANGED <<now, ticks, tickPending, status, lastUpdate, deliveries, loopVar,
                   tasks, index, file, spc, spending, githubKey, spawnCount,
                   actionOutputs>>
    /\ UNCHANGED <<regVars, killVars, extVars>>


(***************************************************************************)
(* Supervisor fan-out (cmd.MainLoop, `for event := range events`): each    *)
(* received event is stored in the loop's one variable `event` and a       *)
(* goroutine is started whose closure refers to that variable; the         *)
(* goroutine reads it when it runs.                                        *)
(***************************************************************************)
NoOutput == [status |-> "", statusCode |-> 0, isTimeout |-> FALSE]
NoWait == [kind |-> "", code |-> 0]
NewTask ==
    [pc |-> "read", ev |-> 0, trace |-> <<>>, currentMillis |-> 0,
     startOk |-> FALSE, killed |-> FALSE,
     wres |-> NoWait, out |-> NoOutput, exit |-> ""]

FanOut ==
    /\ events # <<>>
    /\ loopVar' = Head(events)
    /\ events' = Tail(events)
    /\ tasks' = Append(tasks, NewTask)
    /\ UNCHANGED <<now, ticks, tickPending, status, lastUpdate, deliveries, batch,
                   deleteCalls, visCalls, emitted, index, file, spc, spending,
                   githubKey, spawnCount, actionOutputs>>
    /\ UNCHANGED <<wtrace, regVars, killVars, extVars>>

TaskIds == 1 .. Len(tasks)

\* the goroutine evaluates the argument `event` of ExecuteAction
TaskRead(t) ==
    /\ tasks[t].pc = "read"
    /\ tasks' = [tasks EXCEPT ![t].ev = loopVar, ![t].pc = "gate_dup"]
    /\ UNCHANGED <<now, ticks, tickPending, status, lastUpdate, deliveries, batch,
                   deleteCalls, visCalls, events, emitted, loopVar, index, file,
                   spc, spending, githubKey, spawnCount, actionOutputs>>
    /\ UNCHANGED <<wtrace, regVars, killVars, extVars>>

(***************************************************************************)
(* Executor (executor.ExecuteAction and execute).                          *)
(***************************************************************************)
\* state.HasProcessedEvent
HasProcessedEvent(eventId) == eventId \in DOMAIN index

\* Variant of IsStale that reads stalenessTimeout as seconds (sensitivity
\* variant for C5).
IsStaleSeconds(currentMillis, timestamp) ==
    currentMillis - timestamp > stalenessTimeout * 1000

\* the staleness test of ExecuteAction (lines 247-248)
IsStale(currentMillis, timestamp) == currentMillis - timestamp > stalenessTimeout

\* the GitHub-only policy test (line 259)
PolicyViolation(key, event) == key # "" /\ event.RawCommand # ""

EventOfTask(t) == EventOf(tasks[t].ev)

\* a return of ExecuteAction before execute(): the task ends with `why`
\* (currentMillis is the local variable of line 247; it is dead afterwards)
Discard(t, why, deleted) ==
    tasks' = [tasks EXCEPT ![t].pc = "done", ![t].exit = why, ![t].currentMillis = 0,
                           ![t].trace = IF deleted THEN Append(@, "Delete") ELSE @]

\* Variant of GateDup that discards a duplicate without deleting its message
\* (sensitivity variant for C29).
GateDupKeepsMessage(t) ==
    /\ tasks[t].pc = "gate_dup"
    /\ IF HasProcessedEvent(EventOfTask(t).EventId)
       THEN Discard(t, "duplicate", FALSE)
       ELSE tasks' = [tasks EXCEPT ![t].pc = "gate_stale"]
    /\ UNCHANGED <<now, ticks, tickPending, status, lastUpdate, deliveries, batch,
                   deleteCalls, visCalls, events, emitted, loopVar, index, file, spc,
                   spending, githubKey, spawnCount, actionOutputs>>
    /\ UNCHANGED <<wtrace, regVars, killVars, extVars>>

\* lines 238-244
GateDup(t) ==
    /\ tasks[t].pc = "gate_dup"
    /\ IF HasProcessedEvent(EventOfTask(t).EventId)
       THEN /\ DeleteMessage(EventOfTask(t).ReceiptHandle)
            /\ Discard(t, "duplicate", TRUE)
       ELSE /\ tasks' = [tasks EXCEPT ![t].pc = "gate_stale"]
            /\ UNCHANGED deleteCalls
    /\ UNCHANGED <<now, ticks, tickPending, status, lastUpdate, deliveries, batch,
                   visCalls, events, emitted, loopVar, index, file, spc, spending,
                   githubKey, spawnCount, actionOutputs>>
    /\ UNCHANGED <<wtrace, regVars, killVars, extVars>>

\* lines 246-265: the staleness test against time.Now(), then the policy test
GateStale(t) ==
    /\ tasks[t].pc = "gate_stale"
    /\ IF IsStale(now, EventOfTask(t).Timestamp)
       THEN /\ DeleteMessage(EventOfTask(t).ReceiptHandle)
            /\ Discard(t, "stale", TRUE)
       ELSE IF PolicyViolation(githubKey, EventOfTask(t))
       THEN /\ DeleteMessage(EventOfTask(t).ReceiptHandle)
            /\ Discard(t, "policy", TRUE)
       ELSE /\ tasks' = [tasks EXCEPT ![t].pc = "materialize", ![t].currentMillis = now]
            /\ UNCHANGED deleteCalls
    /\ UNCHANGED <<now, ticks, tickPending, status, lastUpdate, deliveries, batch,
                   visCalls, events, emitted, loopVar, index, file, spc, spending,
                   githubKey, spawnCount, actionOutputs>>
    /\ UNCHANGED <<wtrace, regVars, killVars, extVars>>

\* lines 271-292: fetch the runbook from GitHub when the event names one, and
\* write it to the temp file; either can fail, and then ExecuteAction returns
\* the error
Materialize(t) ==
    /\ tasks[t].pc = "materialize"
    /\ \E fetchOk \in BOOLEAN, writeOk \in BOOLEAN :
          IF EventOfTask(t).GithubFilePath # "" /\ (githubKey = "" \/ ~fetchOk)
          THEN Discard(t, "error", FALSE)
          ELSE IF ~writeOk
          THEN Discard(t, "error", FALSE)
          ELSE tasks' = [tasks EXCEPT ![t].pc = "persist"]
    /\ UNCHANGED <<now, ticks, tickPending, status, lastUpdate, deliveries, batch,
                   deleteCalls, visCalls, events, emitted, loopVar, index, file,
                   spc, spending, githubKey, spawnCount, actionOutputs>>
    /\ UNCHANGED <<wtrace, regVars, killVars, extVars>>

\* state.PersistEvent (line 295): the send on the unbuffered eventPersistCh
\* completes when the store goroutine receives it (metadata.go line 210)
PersistEvent(t) ==
    /\ tasks[t].pc = "persist"
    /\ spc = "idle"
    /\ spc' = "apply"
    /\ spending' = EventOfTask(t).EventId
    /\ tasks' = [tasks EXCEPT ![t].pc = "start"]
    /\ UNCHANGED <<now, ticks, tickPending, status, lastUpdate, deliveries, batch,
                   deleteCalls, visCalls, events, emitted, loopVar, index, file,
                   githubKey, spawnCount, actionOutputs>>
    /\ UNCHANGED <<wtrace, regVars, killVars, extVars>>

\* cmd.Start() (line 176)
StartCommand(t) ==
    /\ tasks[t].pc = "start"
    /\ \E ok \in BOOLEAN :
          /\ tasks' = [tasks EXCEPT ![t].pc = "delete", ![t].startOk = ok,
                                    ![t].trace = Append(@, "Start")]
          /\ spawnCount' = IF ok
                THEN [spawnCount EXCEPT ![EventOfTask(t).EventId] = @ + 1]
                ELSE spawnCount
    /\ UNCHANGED <<now, ticks, tickPending, status, lastUpdate, deliveries, batch,
                   deleteCalls, visCalls, events, emitted, loopVar, index, file,
                   spc, spending, githubKey, actionOutputs>>
    /\ UNCHANGED <<wtrace, regVars, killVars, extVars>>

\* what a finished subprocess reports: exit with a code, or death by a signal
WaitResults ==
    {[kind |-> "exit", code |-> 0], [kind |-> "exit", code |-> 3],
     [kind |-> "signal", code |-> 15]}

\* cmd.Wait(): nil exactly when the process exited with code 0
WaitError(w) == IF w.kind = "exit" /\ w.code = 0 THEN "nil" ELSE "ExitError"

\* syscall.WaitStatus.ExitStatus(): -1 unless the process exited
ExitStatus(w) == IF w.kind = "exit" THEN w.code ELSE -1

\* Variant of ExecuteResult that keeps the initial statusCode 1 on every
\* failure (sensitivity variant for C8).
ExecuteResultFixedCode(startOk, timedOut, w) ==
    LET exitError == IF ~startOk THEN "StartError" ELSE WaitError(w)
        timeout == startOk /\ timedOut
    IN  IF exitError # "nil"
        THEN [status |-> "FAILED", statusCode |-> 1, isTimeout |-> timeout]
        ELSE [status |-> IF timeout THEN "TIMEOUT" ELSE "SUCCESS",
              statusCode |-> ExitStatus(w), isTimeout |-> timeout]

\* The values execute() returns (lines 170-224), from whether Start
\* succeeded, whether the timer fired first, and what Wait reported.
ExecuteResult(startOk, timedOut, w) ==
    LET exitError == IF ~startOk THEN "StartError" ELSE WaitError(w)
        timeout == startOk /\ timedOut
        status0 == IF timeout THEN "TIMEOUT" ELSE "SUCCESS"
    IN  IF exitError # "nil"
        THEN [status |-> "FAILED",
              statusCode |-> IF exitError = "ExitError" THEN ExitStatus(w) ELSE 1,
              isTimeout |-> timeout]
        ELSE [status |-> status0, statusCode |-> ExitStatus(w), isTimeout |-> timeout]

\* Variant of DeleteAfterStart that goes on to the wait without deleting the
\* message (sensitivity variant for C6).
WaitWithoutDelete(t) ==
    /\ tasks[t].pc = "delete"
    /\ tasks' = [tasks EXCEPT
                   ![t].currentMillis = 0,
                   ![t].pc = IF tasks[t].startOk THEN "wait" ELSE "send",
                   ![t].out = IF tasks[t].startOk THEN @
                              ELSE ExecuteResult(FALSE, FALSE, NoWait)]
    /\ UNCHANGED <<now, ticks, tickPending, status, lastUpdate, deliveries, batch,
                   deleteCalls, visCalls, events, emitted, loopVar, index, file, spc,
                   spending, githubKey, spawnCount, actionOutputs>>
    /\ UNCHANGED <<wtrace, regVars, killVars, extVars>>

\* worker.DeleteMessage right after Start (line 179); when Start failed,
\* execute() returns without waiting
DeleteAfterStart(t) ==
    /\ tasks[t].pc = "delete"
    /\ DeleteMessage(EventOfTask(t).ReceiptHandle)
    /\ tasks' = [tasks EXCEPT
                   ![t].trace = Append(@, "Delete"),
                   ![t].currentMillis = 0,
                   ![t].pc = IF tasks[t].startOk THEN "wait" ELSE "send",
                   ![t].out = IF tasks[t].startOk THEN @
                              ELSE ExecuteResult(FALSE, FALSE, NoWait)]
    /\ UNCHANGED <<now, ticks, tickPending, status, lastUpdate, deliveries, batch,
                   visCalls, events, emitted, loopVar, index, file, spc, spending,
                   githubKey, spawnCount, actionOutputs>>
    /\ UNCHANGED <<wtrace, regVars, killVars, extVars>>

\* lines 184-203: wait for the exit, or for the timer; when the timer fires
\* first the command is killed and the wait is drained
WaitCommand(t) ==
    /\ tasks[t].pc = "wait"
    /\ \E timedOut \in BOOLEAN, w \in WaitResults :
          tasks' = [tasks EXCEPT
                      ![t].trace = Append(@, "Wait"),
                      ![t].pc = "send",
                      ![t].killed = timedOut,
                      ![t].wres = w,
                      ![t].out = ExecuteResult(TRUE, timedOut, w)]
    /\ UNCHANGED <<now, ticks, tickPending, status, lastUpdate, deliveries, batch,
                   deleteCalls, visCalls, events, emitted, loopVar, index, file,
                   spc, spending, githubKey, spawnCount, actionOutputs>>
    /\ UNCHANGED <<wtrace, regVars, killVars, extVars>>

\* the ActionOutputMessage sendActionOutput builds (lines 121-134)
ActionOutputMessage(event, r) ==
    [EventId |-> event.EventId, Status |-> r.status, StatusCode |-> r.statusCode,
     IsTimeout |-> r.isTimeout]

\* sendActionOutput (line 311): the send on the actionOutputs channel; the
\* values execute() returned are not used afterwards
SendOutput(t) ==
    /\ tasks[t].pc = "send"
    /\ Len(actionOutputs) < actionOutputsCap
    /\ actionOutputs' = Append(actionOutputs, ActionOutputMessage(EventOfTask(t), tasks[t].out))
    /\ tasks' = [tasks EXCEPT ![t].pc = "active", ![t].trace = Append(@, "Emit"),
                              ![t].startOk = FALSE, ![t].killed = FALSE,
                              ![t].wres = NoWait, ![t].out = NoOutput]
    /\ UNCHANGED <<now, ticks, tickPending, status, lastUpdate, deliveries, batch,
                   deleteCalls, visCalls, events, emitted, loopVar, index, file,
                   spc, spending, githubKey, spawnCount>>
    /\ UNCHANGED <<wtrace, regVars, killVars, extVars>>

\* api.UpdateStatus(api.Active) (line 315)
SetActive(t) ==
    /\ tasks[t].pc = "active"
    /\ SetStatus(Active)
    /\ tasks' = [tasks EXCEPT ![t].pc = "done", ![t].exit = "executed"]
    /\ UNCHANGED <<now, ticks, tickPending, deliveries, batch, deleteCalls, visCalls,
                   events, emitted, loopVar, index, file, spc, spending, githubKey,
                   spawnCount, actionOutputs>>
    /\ UNCHANGED <<wtrace, regVars, killVars, extVars>>

\* Variant of DrainOutput that puts the output back on the channel, as a
\* retry of a failed post would (sensitivity variant for C39).
DrainOutputRequeues ==
    /\ actionOutputs # <<>>
    /\ actionOutputs' = Append(Tail(actionOutputs), Head(actionOutputs))
    /\ UNCHANGED <<now, ticks, tickPending, status, lastUpdate, deliveries, batch,
                   deleteCalls, visCalls, events, emitted, loopVar, tasks, index,
                   file, spc, spending, githubKey, spawnCount>>
    /\ UNCHANGED <<wtrace, regVars, killVars, extVars>>

\* the result drain of cmd.MainLoop (lines 247-254): the oldest output is
\* received and SendActionOutput is called; an error is logged
DrainOutput ==
    /\ actionOutputs # <<>>
    /\ actionOutputs' = Tail(actionOutputs)
    /\ UNCHANGED <<now, ticks, tickPending, status, lastUpdate, deliveries, batch,
                   deleteCalls, visCalls, events, emitted, loopVar, tasks, index,
                   file, spc, spending, githubKey, spawnCount>>
    /\ UNCHANGED <<wtrace, regVars, killVars, extVars>>


(***************************************************************************)
(* Event store (state.InitializeEventsFile and its helpers).  The .events  *)
(* file is its sequence of lines, or does not exist.                       *)
(***************************************************************************)
EmptyMap == [k \in {} |-> 0]
NoFile == [exists |-> FALSE, lines |-> <<>>]
EmptyFile == [exists |-> TRUE, lines |-> <<>>]

\* util.ConcurrentMap.Set and Remove
MapSet(m, key, value) ==
    [k \in DOMAIN m \cup {key} |-> IF k = key THEN value ELSE m[k]]
MapRemove(m, keys) == [k \in DOMAIN m \ keys |-> m[k]]

\* writeToFile: the line `<eventId>:::<unixSeconds>`
FormatRecord(eventId, timestamp) == <<eventId, ":::", timestamp>>

\* strings.Split(line, eventIdTimestampSep): the fields between the separators
SplitRecord(line) == [i \in 1 .. (Len(line) + 1) \div 2 |-> line[2 * i - 1]]

\* the scan loop of reloadEventIds (lines 242-249): later lines win
RECURSIVE LoadLines(_, _)
LoadLines(lines, m) ==
    IF lines = <<>> THEN m
    ELSE LET parts == SplitRecord(Head(lines))
         IN  LoadLines(Tail(lines),
                       IF Len(parts) > 1 THEN MapSet(m, parts[1], parts[2]) ELSE m)

\* time.Now().Unix()
UnixSeconds(ms) == ms \div 1000

\* Variant of IsExpired that also expires an entry exactly one interval old
\* (sensitivity variant for C10).
IsExpiredInclusive(currentMillis, val) ==
    currentMillis - val * 1000 >= eventCleanupInterval

\* the age test of the compaction (line 195), in milliseconds
IsExpired(currentMillis, val) == currentMillis - val * 1000 > eventCleanupInterval

\* reloadEventIds and the fallback of lines 179-182
StoreLoad ==
    /\ spc = "load"
    /\ spc' = "idle"
    /\ \E ioOk \in BOOLEAN :
          IF ~file.exists
          THEN /\ file' = IF ioOk THEN EmptyFile ELSE file
               /\ index' = IF ioOk THEN index ELSE EmptyMap
          ELSE /\ file' = file
               /\ index' = IF ioOk THEN LoadLines(file.lines, EmptyMap) ELSE EmptyMap
    /\ UNCHANGED <<now, ticks, tickPending, status, lastUpdate, deliveries, batch,
                   deleteCalls, visCalls, events, emitted, loopVar, tasks, spending,
                   githubKey, spawnCount, actionOutputs>>
    /\ UNCHANGED <<wtrace, regVars, killVars, extVars>>

\* writeOneRecord: append one line; the open fails when the file is missing
WriteOneRecord(f, eventId, timestamp, ioOk) ==
    IF f.exists /\ ioOk
    THEN [f EXCEPT !.lines = Append(@, FormatRecord(eventId, timestamp))]
    ELSE f

\* the persist case of the loop (lines 210-214), after the receive
StoreApply ==
    /\ spc = "apply"
    /\ spc' = "idle"
    /\ spending' = ""
    /\ index' = MapSet(index, spending, UnixSeconds(now))
    /\ \E ioOk \in BOOLEAN :
          file' = WriteOneRecord(file, spending, UnixSeconds(now), ioOk)
    /\ UNCHANGED <<now, ticks, tickPending, status, lastUpdate, deliveries, batch,
                   deleteCalls, visCalls, events, emitted, loopVar, tasks, githubKey,
                   spawnCount, actionOutputs>>
    /\ UNCHANGED <<wtrace, regVars, killVars, extVars>>

\* the keys the compaction removes (lines 190-198)
EventsToRemove(m, currentMillis) == {k \in DOMAIN m : IsExpired(currentMillis, m[k])}

\* the sequences that list every entry of m once, as lines
RECURSIVE Listings(_)
Listings(m) ==
    IF DOMAIN m = {} THEN {<<>>}
    ELSE UNION { { <<FormatRecord(k, m[k])>> \o rest : rest \in Listings(MapRemove(m, {k})) }
                 : k \in DOMAIN m }

\* Variant of RewriteFile that appends the entries to the file without
\* removing it first (sensitivity variant for C40).
RewriteFileAppends(f, m, io, listing) ==
    IF ~f.exists \/ io = "removeFails" THEN f
    ELSE IF io = "createFails" THEN NoFile
    ELSE [exists |-> TRUE, lines |-> f.lines \o listing]

\* lines 204-209 and writeToBackupFile: remove the file and, when that
\* worked, create it again and append every entry of the map.  io is what
\* the file system does: "ok", "removeFails" (os.Remove returns an error) or
\* "createFails" (the file cannot be created again).
RewriteFile(f, m, io, listing) ==
    IF ~f.exists \/ io = "removeFails" THEN f
    ELSE IF io = "createFails" THEN NoFile
    ELSE [exists |-> TRUE, lines |-> listing]

\* the compaction case of the loop (lines 186-209)
StoreCompact ==
    /\ spc = "idle"
    /\ tickPending
    /\ tickPending' = FALSE
    /\ LET kept == MapRemove(index, EventsToRemove(index, now))
       IN  /\ index' = kept
           /\ \E io \in {"ok", "removeFails", "createFails"}, listing \in Listings(kept) :
                 file' = RewriteFile(file, kept, io, listing)
    /\ UNCHANGED <<now, ticks, status, lastUpdate, deliveries, batch, deleteCalls,
                   visCalls, events, emitted, loopVar, tasks, spc, spending,
                   githubKey, spawnCount, actionOutputs>>
    /\ UNCHANGED <<wtrace, regVars, killVars, extVars>>

(***************************************************************************)
(* The clock, and the compaction ticker (eventReloadCh, a channel of       *)
(* capacity 1 that gets a value every eventCleanupInterval).               *)
(***************************************************************************)
Tick ==
    /\ ticks < MaxTicks
    /\ ticks' = ticks + 1
    /\ now' = now + ClockStep
    /\ tickPending' = (tickPending \/ (now + ClockStep - StartTime) % eventCleanupInterval = 0)
    /\ UNCHANGED <<status, lastUpdate, deliveries, batch, deleteCalls, visCalls,
                   events, emitted, loopVar, tasks, index, file, spc, spending,
                   githubKey, spawnCount, actionOutputs>>
    /\ UNCHANGED <<wtrace, regVars, killVars, extVars>>

(***************************************************************************)
(* Registration and the queue client.  Each successful registration        *)
(* response carries fresh credentials; responses are numbered 0 (the       *)
(* registration at start-up), 1, 2, ...  A field of RegistrationInfo, and  *)
(* of a client built from it, is represented by the number of the          *)
(* response its value came from.                                           *)
(***************************************************************************)
\* the fields of RegistrationInfo getSQSClient and the worker read
CredFields ==
    {"ActionQueueEndpoint", "AWSAccessKey", "AWSSecretAccessKey", "AWSSecurityToken"}

\* worker.getSQSClient, with the read of regInfo.ActionQueueEndpoint that
\* follows it (RunLoop lines 136-137 and 148-149, DeleteMessage lines 67-71)
getSQSClient(info) == [f \in CredFields |-> info[f]]

\* the newest registration whose fields are all stored in *registrationInfo
Replaced == IF toCopy = {} THEN response ELSE response - 1

\* RunLoop, `case <-regInfoUpdatesCh` (lines 146-149)
WorkerRebuild ==
    /\ wpc = "select"
    /\ regInfoUpdatesCh > 0
    /\ regInfoUpdatesCh' = regInfoUpdatesCh - 1
    /\ svc' = getSQSClient(regInfo)
    /\ UNCHANGED <<regInfo, response, toCopy, regCount, triggerReregistrationCh,
                   signalled, wpc, numFailures, shouldLogError, failedRun,
                   pollReplaced, delClient>>
    /\ UNCHANGED <<pipelineVars, killVars, extVars>>

\* RunLoop, `default` (lines 151-153): taken when regInfoUpdatesCh is empty;
\* getMessages is called with the worker's client
PollStart ==
    /\ wpc = "select"
    /\ regInfoUpdatesCh = 0
    /\ wpc' = "polling"
    /\ pollReplaced' = Replaced
    /\ UNCHANGED <<regInfo, response, toCopy, regCount, regInfoUpdatesCh,
                   triggerReregistrationCh, signalled, svc, numFailures,
                   shouldLogError, failedRun, delClient>>
    /\ UNCHANGED <<pipelineVars, killVars, extVars>>

\* getMessages returned without error and without messages (lines 153-157)
PollSucceed ==
    /\ wpc = "polling"
    /\ wpc' = "select"
    /\ shouldLogError' = TRUE
    /\ numFailures' = 0
    /\ failedRun' = 0
    /\ SetStatus(QueuePollingSucceeded)
    /\ UNCHANGED <<regInfo, response, toCopy, regCount, regInfoUpdatesCh,
                   triggerReregistrationCh, signalled, svc, pollReplaced, delClient>>
    /\ UNCHANGED <<pipelineRest, killVars, extVars>>

\* Variant of OnPollFailure that does not count the failure it logs
\* (sensitivity variant for C14).
OnPollFailureLoggedUncounted(n, log) ==
    IF log THEN [numFailures |-> n, shouldLogError |-> FALSE, trigger |-> FALSE]
    ELSE IF n + 1 = numSQSFailuresBeforeReregistration
    THEN [numFailures |-> 0, shouldLogError |-> TRUE, trigger |-> TRUE]
    ELSE [numFailures |-> n + 1, shouldLogError |-> FALSE, trigger |-> FALSE]

\* the two failure branches of RunLoop (lines 221-239): the new numFailures
\* and shouldLogError, and whether a value is sent on regChannel
OnPollFailure(n, log) ==
    IF log THEN [numFailures |-> n + 1, shouldLogError |-> FALSE, trigger |-> FALSE]
    ELSE IF n + 1 = numSQSFailuresBeforeReregistration
    THEN [numFailures |-> 0, shouldLogError |-> TRUE, trigger |-> TRUE]
    ELSE [numFailures |-> n + 1, shouldLogError |-> FALSE, trigger |-> FALSE]

\* getMessages returned an error (lines 221-239); the send on regChannel
\* waits for room in the channel
PollFail ==
    /\ wpc = "polling"
    /\ failedRun < MaxFailedRun
    /\ LET r == OnPollFailure(numFailures, shouldLogError)
       IN  /\ r.trigger => triggerReregistrationCh < triggerReregistrationCap
           /\ numFailures' = r.numFailures
           /\ shouldLogError' = r.shouldLogError
           /\ triggerReregistrationCh' =
                 IF r.trigger THEN triggerReregistrationCh + 1 ELSE triggerReregistrationCh
    /\ wpc' = "select"
    /\ failedRun' = failedRun + 1
    /\ UNCHANGED <<regInfo, response, toCopy, regCount, regInfoUpdatesCh, signalled,
                   svc, pollReplaced, delClient>>
    /\ UNCHANGED <<pipelineVars, killVars, extVars>>

\* the supervisor's goroutine is in its select (cmd/agent/main.go line 206)
SupervisorIdle == toCopy = {} /\ signalled = response

\* `case <-triggerReregistrationCh` or `case <-registrationTickerCh`
\* (lines 219-224): the supervisor takes a trigger, or the ticker's value
TakeRegistrationCause ==
    \E cause \in {"trigger", "ticker"} :
        IF cause = "trigger"
        THEN /\ triggerReregistrationCh > 0
             /\ triggerReregistrationCh' = triggerReregistrationCh - 1
        ELSE UNCHANGED triggerReregistrationCh

\* Variant of RegisterFailed that notifies the worker although the
\* registration failed (sensitivity variant for C21).
RegisterFailedNotifies ==
    /\ SupervisorIdle
    /\ TakeRegistrationCause
    /\ SetStatus(RegistrationFailed)
    /\ regInfoUpdatesCh < regInfoUpdatesCap
    /\ regInfoUpdatesCh' = regInfoUpdatesCh + 1
    /\ UNCHANGED <<regInfo, response, toCopy, regCount, signalled,
                   wpc, svc, numFailures, shouldLogError, failedRun, pollReplaced, delClient>>
    /\ UNCHANGED <<pipelineRest, killVars, extVars>>

\* registerAgent when RegisterAgent returns an error or a response without
\* AgentId (lines 90-94 and 101-104)
RegisterFailed ==
    /\ SupervisorIdle
    /\ TakeRegistrationCause
    /\ SetStatus(RegistrationFailed)
    /\ UNCHANGED <<regInfo, response, toCopy, regCount, regInfoUpdatesCh, signalled,
                   wpc, svc, numFailures, shouldLogError, failedRun, pollReplaced, delClient>>
    /\ UNCHANGED <<pipelineRest, killVars, extVars>>

\* registerAgent when RegisterAgent returns a complete response (lines 89, 98)
RegisterSucceeded ==
    /\ SupervisorIdle
    /\ regCount < MaxRegistrations
    /\ TakeRegistrationCause
    /\ regCount' = regCount + 1
    /\ response' = regCount + 1
    /\ toCopy' = CredFields
    /\ UNCHANGED <<regInfo, regInfoUpdatesCh, signalled, wpc, svc, numFailures,
                   shouldLogError, failedRun, pollReplaced, delClient>>
    /\ UNCHANGED <<pipelineVars, killVars, extVars>>

\* `*registrationInfo = *response` (line 99): a plain store to memory other
\* goroutines read without synchronisation, one field at a time in no
\* particular order
CopyField ==
    /\ \E f \in toCopy :
          /\ regInfo' = [regInfo EXCEPT ![f] = response]
          /\ toCopy' = toCopy \ {f}
    /\ UNCHANGED <<response, regCount, regInfoUpdatesCh, triggerReregistrationCh,
                   signalled, wpc, svc, numFailures, shouldLogError, failedRun,
                   pollReplaced, delClient>>
    /\ UNCHANGED <<pipelineVars, killVars, extVars>>

\* `regInfoUpdatesCh <- "updated"` (line 100)
NotifyWorker ==
    /\ toCopy = {}
    /\ signalled < response
    /\ regInfoUpdatesCh < regInfoUpdatesCap
    /\ regInfoUpdatesCh' = regInfoUpdatesCh + 1
    /\ signalled' = response
    /\ UNCHANGED <<regInfo, response, toCopy, regCount, triggerReregistrationCh,
                   wpc, svc, numFailures, shouldLogError, failedRun, pollReplaced, delClient>>
    /\ UNCHANGED <<pipelineVars, killVars, extVars>>

\* the client DeleteMessage builds for its one call (worker lines 67-71); the
\* executor goroutines and the worker call it at any time
DeleteClientBuild ==
    /\ delClient' = getSQSClient(regInfo)
    /\ UNCHANGED <<regInfo, response, toCopy, regCount, regInfoUpdatesCh,
                   triggerReregistrationCh, signalled, wpc, svc, numFailures,
                   shouldLogError, failedRun, pollReplaced>>
    /\ UNCHANGED <<pipelineVars, killVars, extVars>>

\* after the registration at start-up: RunLoop has built its client (line 136)
RegInit ==
    /\ regInfo = [f \in CredFields |-> 0]
    /\ response = 0
    /\ toCopy = {}
    /\ regCount = 0
    /\ regInfoUpdatesCh = 0
    /\ triggerReregistrationCh = 0
    /\ signalled = 0
    /\ wpc = "select"
    /\ svc = [f \in CredFields |-> 0]
    /\ numFailures = 0
    /\ shouldLogError = TRUE
    /\ failedRun = 0
    /\ pollReplaced = 0
    /\ delClient = [f \in CredFields |-> 0]

NextReg ==
    \/ WorkerRebuild
    \/ PollStart
    \/ PollSucceed
    \/ PollFail
    \/ RegisterFailed
    \/ RegisterSucceeded
    \/ CopyField
    \/ NotifyWorker
    \/ DeleteClientBuild

(***************************************************************************)
(* One subprocess after cmd.Start() has succeeded (execute lines 183-224,  *)
(* POSIX build).  The direct child ("leader") leads its own process group  *)
(* (SetPGroup); the runbook may fork one more process ("child"), which     *)
(* inherits the stdout and stderr pipes.  cmd.Wait() reaps the leader and  *)
(* then waits until the pipes are closed by every process that holds them. *)
(***************************************************************************)
Procs == {"leader", "child"}

\* the processes of the leader's group that are alive
LiveGroup ==
    (IF leader.st = "running" THEN {"leader"} ELSE {})
        \cup (IF child = "running" /\ childInGroup THEN {"child"} ELSE {})

\* the runbook forks a process
LeaderFork ==
    /\ kpc # "off"
    /\ leader.st = "running"
    /\ child = "none"
    /\ child' = "running"
    /\ UNCHANGED <<kpc, wgpc, leader, traps, childInGroup, termSent, groupAtKill, kout>>
    /\ UNCHANGED <<pipelineVars, regVars, extVars>>

\* the direct child exits by itself
LeaderExit ==
    /\ kpc # "off"
    /\ leader.st = "running"
    /\ \E code \in {0, 3} :
          leader' = [st |-> "zombie", w |-> [kind |-> "exit", code |-> code]]
    /\ UNCHANGED <<kpc, wgpc, child, traps, childInGroup, termSent, groupAtKill, kout>>
    /\ UNCHANGED <<pipelineVars, regVars, extVars>>

\* the forked process exits by itself
ChildExit ==
    /\ child = "running"
    /\ child' = "exited"
    /\ UNCHANGED <<kpc, wgpc, leader, traps, childInGroup, termSent, groupAtKill, kout>>
    /\ UNCHANGED <<pipelineVars, regVars, extVars>>

\* cmd.Wait() in the goroutine of lines 185-187: the leader is reaped
WaitReap ==
    /\ wgpc = "wait4"
    /\ leader.st = "zombie"
    /\ leader' = [leader EXCEPT !.st = "reaped"]
    /\ wgpc' = "copy"
    /\ UNCHANGED <<kpc, child, traps, childInGroup, termSent, groupAtKill, kout>>
    /\ UNCHANGED <<pipelineVars, regVars, extVars>>

\* cmd.Wait() returns when the copying of stdout and stderr has ended, and the
\* goroutine sends the result on done
WaitCopied ==
    /\ wgpc = "copy"
    /\ child # "running"
    /\ wgpc' = "done"
    /\ UNCHANGED <<kpc, leader, child, traps, childInGroup, termSent, groupAtKill, kout>>
    /\ UNCHANGED <<pipelineVars, regVars, extVars>>

\* the select of lines 190-203 takes `case <-time.After(...)`
TimerFires ==
    /\ kpc = "select"
    /\ kpc' = "kill"
    /\ UNCHANGED <<wgpc, leader, child, traps, childInGroup, termSent, groupAtKill, kout>>
    /\ UNCHANGED <<pipelineVars, regVars, extVars>>

\* the select takes `case exitError = <-done`
SelectDone ==
    /\ kpc = "select"
    /\ wgpc = "done"
    /\ kpc' = "classifyExit"
    /\ UNCHANGED <<wgpc, leader, child, traps, childInGroup, termSent, groupAtKill, kout>>
    /\ UNCHANGED <<pipelineVars, regVars, extVars>>

\* a process that receives SIGTERM and does not catch it dies
Terminated(p) == p \in LiveGroup /\ p \notin traps

\* KillCommand (cmd/windows/main.go lines 97-104, the !windows build):
\* syscall.Getpgid fails when the leader has been reaped, and then no signal
\* is sent; otherwise kill(-pgid, 15) reaches every live process of the group
KillCommand ==
    /\ kpc = "kill"
    /\ kpc' = "drain"
    /\ groupAtKill' = LiveGroup
    /\ IF leader.st # "reaped"
       THEN /\ termSent' = LiveGroup
            /\ leader' = IF Terminated("leader")
                         THEN [st |-> "zombie", w |-> [kind |-> "signal", code |-> 15]]
                         ELSE leader
            /\ child' = IF Terminated("child") THEN "exited" ELSE child
       ELSE UNCHANGED <<termSent, leader, child>>
    /\ UNCHANGED <<wgpc, traps, childInGroup, kout>>
    /\ UNCHANGED <<pipelineVars, regVars, extVars>>

\* `exitError = <-done` after the kill (line 196)
DrainWait ==
    /\ kpc = "drain"
    /\ wgpc = "done"
    /\ kpc' = "classifyTimeout"
    /\ UNCHANGED <<wgpc, leader, child, traps, childInGroup, termSent, groupAtKill, kout>>
    /\ UNCHANGED <<pipelineVars, regVars, extVars>>

\* lines 206-224 and sendActionOutput: the result is classified and emitted
EmitResult ==
    /\ kpc \in {"classifyExit", "classifyTimeout"}
    /\ kout' = ExecuteResult(TRUE, kpc = "classifyTimeout", leader.w)
    /\ kpc' = "emitted"
    /\ UNCHANGED <<wgpc, leader, child, traps, childInGroup, termSent, groupAtKill>>
    /\ UNCHANGED <<pipelineVars, regVars, extVars>>

\* Start has returned nil and the goroutine that waits has been started
KillInit ==
    /\ kpc = "select"
    /\ wgpc = "wait4"
    /\ leader = [st |-> "running", w |-> NoWait]
    /\ child = "none"
    /\ traps \in SUBSET Procs
    /\ childInGroup \in BOOLEAN
    /\ termSent = {}
    /\ groupAtKill = {}
    /\ kout = NoOutput

\* no subprocess
KillOff ==
    /\ kpc = "off"
    /\ wgpc = "off"
    /\ leader = [st |-> "reaped", w |-> NoWait]
    /\ child = "none"
    /\ traps = {}
    /\ childInGroup = TRUE
    /\ termSent = {}
    /\ groupAtKill = {}
    /\ kout = NoOutput

NextKill ==
    \/ LeaderFork
    \/ LeaderExit
    \/ ChildExit
    \/ WaitReap
    \/ WaitCopied
    \/ TimerFires
    \/ SelectDone
    \/ KillCommand
    \/ DrainWait
    \/ EmitResult

(***************************************************************************)
(* The error channel (api/errors.go).  Two paths put a message into it:    *)
(* api.ReportError and the logging hook's Fire for Error-level entries.    *)
(* A goroutine started in init() takes the messages one by one and posts   *)
(* each to the service.                                                    *)
(***************************************************************************)
Reporters == {"ReportError", "Fire"}

\* a component calls ReportError, or logs at Error level and logrus calls Fire
ReportBegin(r) ==
    /\ rpc[r] = "idle"
    /\ reports < MaxReports
    /\ reports' = reports + 1
    /\ rpc' = [rpc EXCEPT ![r] = "send"]
    /\ UNCHANGED <<ErrorsChannel, upc>>
    /\ UNCHANGED errRest

\* `ErrorsChannel <- err` (errors.go line 57) and `hook.errorsCh <- ...`
\* (neptune_hook.go line 53): a send on a buffered channel, which waits while
\* the buffer is full
ReportSend(r) ==
    /\ rpc[r] = "send"
    /\ Len(ErrorsChannel) < ErrorsChannelCap
    /\ ErrorsChannel' = Append(ErrorsChannel, r)
    /\ rpc' = [rpc EXCEPT ![r] = "idle"]
    /\ UNCHANGED <<upc, reports>>
    /\ UNCHANGED errRest

\* `for msg := range ErrorsChannel` (errors.go lines 43-45) receives a message
UploaderTake ==
    /\ upc = "range"
    /\ ErrorsChannel # <<>>
    /\ ErrorsChannel' = Tail(ErrorsChannel)
    /\ upc' = "post"
    /\ UNCHANGED <<rpc, reports>>
    /\ UNCHANGED errRest

\* uploadError returns (lines 61-78): napping.Post has answered or failed
UploaderPosted ==
    /\ upc = "post"
    /\ upc' = "range"
    /\ UNCHANGED <<ErrorsChannel, rpc, reports>>
    /\ UNCHANGED errRest

\* after init(): the channel is empty and the goroutine waits for a message
ErrInit ==
    /\ ErrorsChannel = <<>>
    /\ rpc = [r \in Reporters |-> "idle"]
    /\ upc = "range"
    /\ reports = 0

NextErr ==
    \/ \E r \in Reporters : ReportBegin(r)
    \/ \E r \in Reporters : ReportSend(r)
    \/ UploaderTake
    \/ UploaderPosted

(***************************************************************************)
(* One call of ExecuteAction for an event that has passed the gates, from  *)
(* writeToTmpFile to the return (executor.go lines 288-319).  A stream is  *)
(* represented by its source and its length in bytes; a prefix of a stream *)
(* is the same source with a smaller length.                               *)
(***************************************************************************)
NoStream == [src |-> "", len |-> 0]
NoMessage == [Status |-> "", ActionOutput |-> NoStream, FailureReason |-> NoStream]

\* lengths of the output of a subprocess
StreamLengths ==
    {0, 1, maxActionOutputSize - 1, maxActionOutputSize, maxActionOutputSize + 1,
     maxActionOutputSize + 2, 2 * maxActionOutputSize}

\* the Go expression s[:n]
SliceTo(s, n) == [s EXCEPT !.len = n]

\* Variant of Truncate that cuts at maxActionOutputSize (sensitivity variant
\* for C23).
TruncateToMax(s) ==
    IF s.len > maxActionOutputSize THEN SliceTo(s, maxActionOutputSize) ELSE s

\* lines 303-305 and 307-309
Truncate(s) ==
    IF s.len > maxActionOutputSize THEN SliceTo(s, maxActionOutputSize - 1) ELSE s

\* writeToTmpFile, os.Create (lines 97-105): when it fails writeToTmpFile
\* returns the error and ExecuteAction returns at line 290
TmpCreate ==
    /\ xpc = "create"
    /\ \E ok \in BOOLEAN :
          /\ tmpFile' = ok
          /\ xpc' = IF ok THEN "write" ELSE "returned"
    /\ UNCHANGED <<deferred, stdout, stderr, xout>>
    /\ UNCHANGED execRest

\* writeToTmpFile, f.WriteString (lines 107-113) and, when it succeeded, the
\* return to ExecuteAction, which executes `defer os.Remove(tmpFile)` (line
\* 292); when the write fails ExecuteAction returns at line 290
TmpWrite ==
    /\ xpc = "write"
    /\ \E ok \in BOOLEAN :
          /\ deferred' = ok
          /\ xpc' = IF ok THEN "execute" ELSE "returned"
    /\ UNCHANGED <<tmpFile, stdout, stderr, xout>>
    /\ UNCHANGED execRest

\* PersistEvent and execute() (lines 295-300): the subprocess has written
\* its output and execute returns the two buffers and a status
RunExecute ==
    /\ xpc = "execute"
    /\ \E n \in StreamLengths, m \in StreamLengths,
          st \in {"SUCCESS", "FAILED", "TIMEOUT"} :
          /\ stdout' = [src |-> "stdout", len |-> n]
          /\ stderr' = [src |-> "stderr", len |-> m]
          /\ xout' = [xout EXCEPT !.Status = st]
    /\ xpc' = "send"
    /\ UNCHANGED <<tmpFile, deferred>>
    /\ UNCHANGED execRest

\* the truncation and sendActionOutput (lines 302-311, 119-133)
TruncateAndSend ==
    /\ xpc = "send"
    /\ xout' = [xout EXCEPT !.ActionOutput = Truncate(stdout),
                            !.FailureReason = Truncate(stderr)]
    /\ xpc' = "return"
    /\ UNCHANGED <<tmpFile, deferred, stdout, stderr>>
    /\ UNCHANGED execRest

\* `return e` (line 318): the deferred os.Remove runs
ExecuteActionReturn ==
    /\ xpc = "return"
    /\ tmpFile' = IF deferred THEN FALSE ELSE tmpFile
    /\ xpc' = "returned"
    /\ UNCHANGED <<deferred, stdout, stderr, xout>>
    /\ UNCHANGED execRest

\* no call in progress
ExecOff ==
    /\ xpc = "off"
    /\ tmpFile = FALSE
    /\ deferred = FALSE
    /\ stdout = NoStream
    /\ stderr = NoStream
    /\ xout = NoMessage

\* ExecuteAction is about to call writeToTmpFile (line 288)
ExecInit ==
    /\ xpc = "create"
    /\ tmpFile = FALSE
    /\ deferred = FALSE
    /\ stdout = NoStream
    /\ stderr = NoStream
    /\ xout = NoMessage

NextExec ==
    \/ TmpCreate
    \/ TmpWrite
    \/ RunExecute
    \/ TruncateAndSend
    \/ ExecuteActionReturn

(***************************************************************************)
(* api.joinURL.  A string is a sequence of tokens: the token "/" is the    *)
(* slash character, every other token is a run of characters without a    *)
(* slash.                                                                  *)
(***************************************************************************)
slash == <<"/">>
protocol == <<"https:", "/", "/">>
agentApi == <<"/", "api", "/", "v1", "/", "agent", "/">>
NoURL == <<"?">>

\* strings.TrimRight(s, "/")
RECURSIVE TrimRight(_)
TrimRight(s) ==
    IF s # <<>> /\ s[Len(s)] = "/" THEN TrimRight(SubSeq(s, 1, Len(s) - 1)) ELSE s

\* strings.TrimLeft(s, "/")
RECURSIVE TrimLeft(_)
TrimLeft(s) == IF s # <<>> /\ s[1] = "/" THEN TrimLeft(Tail(s)) ELSE s

\* strings.Trim(s, "/")
Trim(s) == TrimLeft(TrimRight(s))

\* strings.Join(a, sep)
RECURSIVE Join(_, _)
Join(a, sep) ==
    IF a = <<>> THEN <<>>
    ELSE IF Len(a) = 1 THEN a[1]
    ELSE a[1] \o sep \o Join(Tail(a), sep)

\* Variant of joinURL that keeps the slashes at the end of the endpoint
\* (sensitivity variant for C24).
joinURLKeepsEndpointSlash(endpoint, args) ==
    LET trimmedArgs == [i \in 1 .. Len(args) |-> Trim(args[i])]
    IN  Join(<<protocol, endpoint, agentApi, Join(trimmedArgs, slash)>>, <<>>)

\* joinURL (api.go lines 98-105)
joinURL(endpoint, args) ==
    LET trimmedArgs == [i \in 1 .. Len(args) |-> Trim(args[i])]
    IN  Join(<<protocol, TrimRight(endpoint), agentApi, Join(trimmedArgs, slash)>>, <<>>)

\* endpoints and path arguments a caller may pass
Endpoints ==
    {<<"x.example">>, <<"x.example", "/">>, <<"x.example", "/", "/">>,
     <<"https:", "/", "/", "x.example", "/">>, <<"www.neptune.io">>}
PathArgs == {<<"a">>, <<"/", "b", "/">>, <<"c">>, <<"/", "/", "d">>, <<>>}
MaxArgs == 3

\* a caller evaluates joinURL(endpoint, args...)
CallJoinURL ==
    /\ urlOut = NoURL
    /\ urlOut' = joinURL(urlIn.endpoint, urlIn.args)
    /\ UNCHANGED urlIn
    /\ UNCHANGED urlRest

\* no call
UrlOff ==
    /\ urlIn = [endpoint |-> <<>>, args |-> <<>>]
    /\ urlOut = NoURL

\* the arguments of one call
UrlInit ==
    /\ \E k \in 1 .. MaxArgs :
          urlIn \in [endpoint : Endpoints, args : [1 .. k -> PathArgs]]
    /\ urlOut = NoURL

NextUrl == CallJoinURL

(***************************************************************************)
(* Start-up: MainLoop from the parsing of the flags to the start of the    *)
(* loops (cmd/agent/main.go lines 108-250) and package config.             *)
(***************************************************************************)
DefaultBaseURL == "www.neptune.io"
DefaultConfigFileName == "neptune-agent.json"
defaultLogFileName == "neptune-agent.log"
NoConfig == [ApiKey |-> "", Endpoint |-> ""]
NoAgent == [LogFile |-> "", DebugMode |-> FALSE, GithubApiKey |-> ""]
\* a config file parseConfig cannot read or deserialize
Unreadable == [ok |-> FALSE, Neptune |-> NoConfig, Agent |-> NoAgent]

\* config.getDefaultConfig
getDefaultConfig ==
    [ok |-> TRUE,
     Neptune |-> [ApiKey |-> "", Endpoint |-> DefaultBaseURL],
     Agent |-> [LogFile |-> defaultLogFileName, DebugMode |-> FALSE, GithubApiKey |-> ""]]

\* Variant of mergeConfigs that gives the file's values precedence
\* (sensitivity variant for C25).
mergeConfigsFileFirst(cmdConfig, configObj) ==
    [Neptune |-> [ApiKey |-> IF configObj.Neptune.ApiKey # "" THEN configObj.Neptune.ApiKey
                             ELSE cmdConfig.ApiKey,
                  Endpoint |-> IF configObj.Neptune.Endpoint # "" THEN configObj.Neptune.Endpoint
                               ELSE cmdConfig.Endpoint],
     Agent |-> configObj.Agent]

\* config.mergeConfigs (lines 60-81)
mergeConfigs(cmdConfig, configObj) ==
    [Neptune |-> [ApiKey |-> IF cmdConfig.ApiKey # "" THEN cmdConfig.ApiKey
                             ELSE configObj.Neptune.ApiKey,
                  Endpoint |-> IF cmdConfig.Endpoint # "" THEN cmdConfig.Endpoint
                               ELSE configObj.Neptune.Endpoint],
     Agent |-> configObj.Agent]

\* validateConfig (main.go lines 74-85): TRUE when it returns nil
validateConfig(configObj) == configObj.ApiKey # "" /\ configObj.Endpoint # ""

\* Variant of SleepDelay without the upper limit (sensitivity variant for
\* C28).
SleepDelayUncapped(n) == n * 30

\* math.Min(float64(i*30), 300) (line 170)
SleepDelay(n) == IF n * 30 < 300 THEN n * 30 ELSE 300

\* api.ReportError at start-up: the channel has room
ReportErrorAtBoot == ErrorsChannel' = Append(ErrorsChannel, "ReportError")

\* the tickers created when the packages are initialized, before main runs
\* (metadata.go line 163: `var eventReloadCh = time.NewTicker(...).C`)
PackageTickers == {"eventReloadCh"}

\* the contents a config file may have; a field the file leaves out is ""
ConfigFiles ==
    {Unreadable} \cup
    [ok : {TRUE},
     Neptune : [ApiKey : {"", "filekey"}, Endpoint : {"", "file.example"}],
     Agent : {NoAgent, [LogFile |-> "agent.log", DebugMode |-> TRUE, GithubApiKey |-> "token"]}]

\* lines 112-122: the path of the config file
BootLocate ==
    /\ bpc = "flags"
    /\ bpc' = "getconfig"
    /\ IF flags.config # ""
       THEN /\ configFilePath' = flags.config
            /\ UNCHANGED <<errorChannel, ErrorsChannel, status, lastUpdate>>
       ELSE IF absOk
       THEN /\ configFilePath' = DefaultConfigFileName
            /\ UNCHANGED <<errorChannel, ErrorsChannel, status, lastUpdate>>
       ELSE /\ configFilePath' = ""
            /\ errorChannel' = errorChannel + 1
            /\ ReportErrorAtBoot
            /\ SetStatus(ConfigReadFailed)
    /\ UNCHANGED <<flags, cfgFile, absOk, neptuneConfig, agentConfig, attempts, sleeps,
                   started, exitCode>>
    /\ UNCHANGED <<bootRest, registrationInfo>>

\* lines 125-131 and config.GetConfig (part_000 lines 84-103): the file is
\* parsed when there is a path, the defaults are taken otherwise; the result
\* is merged with the flags
BootGetConfig ==
    /\ bpc = "getconfig"
    /\ IF configFilePath # "" /\ cfgFile = Unreadable
       THEN /\ errorChannel' = errorChannel + 1
            /\ SetStatus(ConfigReadFailed)
            /\ exitCode' = 1
            /\ bpc' = "exit"
            /\ UNCHANGED <<neptuneConfig, agentConfig>>
       ELSE LET configObject == IF configFilePath # "" THEN cfgFile ELSE getDefaultConfig
                merged == mergeConfigs([ApiKey |-> flags.api_key,
                                        Endpoint |-> flags.endpoint], configObject)
            IN  /\ neptuneConfig' = merged.Neptune
                /\ agentConfig' = merged.Agent
                /\ bpc' = "validate"
                /\ UNCHANGED <<errorChannel, exitCode, status, lastUpdate>>
    /\ UNCHANGED <<flags, cfgFile, absOk, configFilePath, attempts, sleeps, started, ErrorsChannel>>
    /\ UNCHANGED <<bootRest, registrationInfo>>

\* lines 133-141
BootValidate ==
    /\ bpc = "validate"
    /\ IF validateConfig(neptuneConfig)
       THEN /\ SetStatus(ConfigReadSucceeded)
            /\ bpc' = "metadata"
            /\ UNCHANGED <<errorChannel, ErrorsChannel, exitCode>>
       ELSE /\ errorChannel' = errorChannel + 1
            /\ ReportErrorAtBoot
            /\ SetStatus(ConfigReadFailed)
            /\ exitCode' = 1
            /\ bpc' = "exit"
    /\ UNCHANGED <<flags, cfgFile, absOk, configFilePath, neptuneConfig, agentConfig,
                   attempts, sleeps, started>>
    /\ UNCHANGED <<bootRest, registrationInfo>>

\* lines 143-163: the logger is set up and the host metadata are fetched
BootMetadata ==
    /\ bpc = "metadata"
    /\ \E ok \in BOOLEAN :
          /\ bpc' = IF ok THEN "register" ELSE "exit"
          /\ exitCode' = IF ok THEN exitCode ELSE 1
    /\ UNCHANGED <<flags, cfgFile, absOk, configFilePath, neptuneConfig, agentConfig,
                   attempts, sleeps, started, errorChannel, ErrorsChannel, status, lastUpdate>>
    /\ UNCHANGED <<bootRest, registrationInfo>>

\* one iteration of the registration loop (lines 165-177) in which
\* RegisterAgent returns an error: the delay is computed and slept
BootRegisterFailed ==
    /\ bpc = "register"
    /\ attempts < MaxAttempts
    /\ attempts' = attempts + 1
    /\ sleeps' = Append(sleeps, SleepDelay(attempts'))
    /\ bpc' = "sleep"
    /\ UNCHANGED <<flags, cfgFile, absOk, configFilePath, neptuneConfig, agentConfig,
                   started, errorChannel, exitCode, ErrorsChannel, status, lastUpdate>>
    /\ UNCHANGED <<bootRest, registrationInfo>>

\* time.Sleep returns
BootSleepOver ==
    /\ bpc = "sleep"
    /\ bpc' = "register"
    /\ UNCHANGED <<flags, cfgFile, absOk, configFilePath, neptuneConfig, agentConfig,
                   attempts, sleeps, started, errorChannel, exitCode, ErrorsChannel, status,
                   lastUpdate>>
    /\ UNCHANGED <<bootRest, registrationInfo>>

\* an iteration in which RegisterAgent returns without error (lines 167-182);
\* the response may lack the AgentId
BootRegistered ==
    /\ bpc = "register"
    /\ attempts' = attempts + 1
    /\ \E AgentId \in {"", "A1"} :
          /\ registrationInfo' = AgentId
          /\ IF Len(AgentId) > 0 THEN SetStatus(RegistrationSucceeded)
             ELSE UNCHANGED <<status, lastUpdate>>
    /\ bpc' = "registered"
    /\ UNCHANGED <<flags, cfgFile, absOk, configFilePath, neptuneConfig, agentConfig,
                   sleeps, started, errorChannel, exitCode, ErrorsChannel>>
    /\ UNCHANGED bootRest

\* lines 185-250: the event store's loop (InitializeEventsFile), the three
\* tickers of MainLoop, the supervisor's goroutine and the worker are started
BootStartLoops ==
    /\ bpc = "registered"
    /\ started' = started \cup {"store", "heartbeatTickerCh", "uploadLogsTickerCh",
                                "registrationTickerCh", "supervisor", "worker"}
    /\ bpc' = "running"
    /\ UNCHANGED <<flags, cfgFile, absOk, configFilePath, neptuneConfig, agentConfig,
                   attempts, sleeps, errorChannel, exitCode, ErrorsChannel, status, lastUpdate>>
    /\ UNCHANGED <<bootRest, registrationInfo>>

\* no start-up modelled
BootOff ==
    /\ bpc = "off"
    /\ flags = [endpoint |-> "", api_key |-> "", config |-> ""]
    /\ cfgFile = Unreadable
    /\ absOk = TRUE
    /\ configFilePath = ""
    /\ neptuneConfig = NoConfig
    /\ agentConfig = NoAgent
    /\ attempts = 0
    /\ sleeps = <<>>
    /\ started = {}
    /\ errorChannel = 0
    /\ exitCode = -1
    /\ registrationInfo = ""

\* the process has been started: command line and config file are given
BootInit ==
    /\ bpc = "flags"
    /\ flags \in [endpoint : {"", "flag.example"}, api_key : {"", "flagkey"},
                   config : {"", "given.json"}]
    /\ cfgFile \in ConfigFiles
    /\ absOk \in BOOLEAN
    /\ flags.config # "" => absOk
    /\ configFilePath = ""
    /\ neptuneConfig = NoConfig
    /\ agentConfig = NoAgent
    /\ attempts = 0
    /\ sleeps = <<>>
    /\ started = PackageTickers
    /\ errorChannel = 0
    /\ exitCode = -1
    /\ registrationInfo = ""

NextBoot ==
    \/ BootLocate
    \/ BootGetConfig
    \/ BootValidate
    \/ BootMetadata
    \/ BootRegisterFailed
    \/ BootSleepOver
    \/ BootRegistered
    \/ BootStartLoops

(***************************************************************************)
(* The sharded map's choice of shard (util.ConcurrentMap.GetShard).  A     *)
(* 32-bit value is its two 16-bit halves, so that no intermediate result   *)
(* leaves the range of the checker's integers.                             *)
(***************************************************************************)
SHARD_COUNT == 32
MaxKeyLen == 3

\* the bytes keys are made of: "E", "1", "2", "-"
KeyBytes == {69, 49, 50, 45}
Keys == UNION {[1 .. n -> KeyBytes] : n \in 0 .. MaxKeyLen}
IntSizes == {32, 64}

\* hash/fnv: offset32 = 2166136261 = 0x811C9DC5, prime32 = 16777619 = 0x01000193
offset32 == [hi |-> 33052, lo |-> 40389]
prime32 == [hi |-> 256, lo |-> 403]

\* exclusive or of two n-bit values
RECURSIVE Xor(_, _, _)
Xor(a, b, n) ==
    IF n = 0 THEN 0
    ELSE (((a % 2) + (b % 2)) % 2) + 2 * Xor(a \div 2, b \div 2, n - 1)

\* uint32 multiplication by prime32, modulo 2^32
MulPrime(h) ==
    LET t == h.lo * prime32.lo
    IN  [hi |-> (h.hi * prime32.lo + h.lo * prime32.hi + (t \div 65536)) % 65536,
         lo |-> t % 65536]

\* fnv.New32, Write, Sum32: FNV-1, for each byte multiply, then xor
RECURSIVE fnv32From(_, _)
fnv32From(h, key) ==
    IF key = <<>> THEN h
    ELSE LET m == MulPrime(h)
         IN  fnv32From([hi |-> m.hi,
                        lo |-> (m.lo \div 256) * 256 + Xor(m.lo % 256, key[1], 8)],
                       Tail(key))

fnv32(key) == fnv32From(offset32, key)

\* the conversion int(x) of a uint32 x: a value of 2^31 or more wraps to
\* x - 2^32 when int has 32 bits; the result is sign and magnitude
ToInt(h, bits) ==
    IF bits = 64 \/ h.hi < 32768
    THEN [neg |-> FALSE, hi |-> h.hi, lo |-> h.lo]
    ELSE [neg |-> TRUE,
          hi |-> (65535 - h.hi + (IF h.lo = 0 THEN 1 ELSE 0)) % 65536,
          lo |-> (65536 - h.lo) % 65536]

\* Go's remainder v % n for n a divisor of 2^16: it has the sign of v
Rem(v, n) == IF v.neg THEN 0 - (v.lo % n) ELSE v.lo % n

NoShard == [called |-> FALSE, panic |-> FALSE, index |-> 0]

\* the index expression int(hasher.Sum32())%SHARD_COUNT
ShardIndex(key, bits) == Rem(ToInt(fnv32(key), bits), SHARD_COUNT)

\* m[...]: an index outside the slice is a run-time panic
GetShard ==
    /\ ~shardOut.called
    /\ LET i == ShardIndex(shardKey, intSize)
       IN  shardOut' = IF i \in 0 .. SHARD_COUNT - 1
                       THEN [called |-> TRUE, panic |-> FALSE, index |-> i]
                       ELSE [called |-> TRUE, panic |-> TRUE, index |-> i]
    /\ UNCHANGED <<shardKey, intSize, rtVars, loopVars>>
    /\ UNCHANGED libRest

ShardOff ==
    /\ shardKey = <<>>
    /\ intSize = 64
    /\ shardOut = NoShard

ShardInit ==
    /\ shardKey \in Keys
    /\ intSize \in IntSizes
    /\ shardOut = NoShard

NextShard == GetShard

(***************************************************************************)
(* The text of the .events file (writeToFile, reloadEventIds).  A string   *)
(* is the sequence of its tokens: the separator ":::", a decimal digit, or *)
(* a piece of text without separator and digits.                           *)
(***************************************************************************)
MaxStamp == 2
MaxPersists == 2

eventIdTimestampSep == ":::"
Digits == <<"0", "1", "2", "3", "4", "5", "6", "7", "8", "9">>

\* the eventId values of the events persisted
RtIds == {<<"E">>, <<"F">>, <<"E", ":::", "F">>, <<"E", ":::", "1">>}
Stamps == 0 .. MaxStamp

\* strconv.FormatInt(timestamp, 10), for timestamp >= 0
RECURSIVE FormatInt(_)
FormatInt(n) ==
    IF n < 10 THEN <<Digits[n + 1]>>
    ELSE Append(FormatInt(n \div 10), Digits[(n % 10) + 1])

IsDigit(tok) == \E d \in 1 .. 10 : Digits[d] = tok
DigitValue(tok) == (CHOOSE d \in 1 .. 10 : Digits[d] = tok) - 1

RECURSIVE DecimalValue(_)
DecimalValue(part) ==
    IF part = <<>> THEN 0
    ELSE 10 * DecimalValue(SubSeq(part, 1, Len(part) - 1)) + DigitValue(part[Len(part)])

\* strconv.ParseInt(part, 10, 64): an error unless the text is a number
ParseInt(part) ==
    IF part # <<>> /\ \A i \in 1 .. Len(part) : IsDigit(part[i])
    THEN [ok |-> TRUE, value |-> DecimalValue(part)]
    ELSE [ok |-> FALSE, value |-> 0]

\* the record writeToFile writes, without its newline
Record(eventId, timestamp) == eventId \o <<eventIdTimestampSep>> \o FormatInt(timestamp)

\* strings.Split(line, eventIdTimestampSep); cur is the part being read
RECURSIVE SplitFrom(_, _)
SplitFrom(line, cur) ==
    IF line = <<>> THEN <<cur>>
    ELSE IF Head(line) = eventIdTimestampSep
         THEN <<cur>> \o SplitFrom(Tail(line), <<>>)
         ELSE SplitFrom(Tail(line), Append(cur, Head(line)))

Split(line) == SplitFrom(line, <<>>)

\* the scan loop of reloadEventIds (lines 242-249) on the file's text
RECURSIVE ScanLines(_, _)
ScanLines(lines, m) ==
    IF lines = <<>> THEN m
    ELSE LET parts == Split(Head(lines))
             timestamp == IF Len(parts) > 1 THEN ParseInt(parts[2])
                          ELSE [ok |-> FALSE, value |-> 0]
         IN  ScanLines(Tail(lines),
                       IF timestamp.ok THEN MapSet(m, parts[1], timestamp.value) ELSE m)

\* the sequences that write every entry of m once (writeToBackupFile)
RECURSIVE RecordListings(_)
RecordListings(m) ==
    IF DOMAIN m = {} THEN {<<>>}
    ELSE UNION { { <<Record(k, m[k])>> \o rest : rest \in RecordListings(MapRemove(m, {k})) }
                 : k \in DOMAIN m }

NotLoaded == [done |-> FALSE, map |-> EmptyMap]

\* the persist case of the store loop: Set, then writeOneRecord
RtPersist ==
    /\ ~rtLoaded.done
    /\ rtCount < MaxPersists
    /\ rtCount' = rtCount + 1
    /\ \E eventId \in RtIds, currentTime \in Stamps :
          /\ rtIndex' = MapSet(rtIndex, eventId, currentTime)
          /\ rtFile' = Append(rtFile, Record(eventId, currentTime))
    /\ UNCHANGED <<rtLoaded, shardVars, loopVars>>
    /\ UNCHANGED libRest

\* the compaction case: the entries that are too old are removed, the file
\* is removed and every entry left is written, in the order of the iteration
RtCompact ==
    /\ ~rtLoaded.done
    /\ rtFile # <<>>
    /\ \E old \in SUBSET DOMAIN rtIndex :
          /\ rtIndex' = MapRemove(rtIndex, old)
          /\ rtFile' \in RecordListings(MapRemove(rtIndex, old))
    /\ UNCHANGED <<rtCount, rtLoaded, shardVars, loopVars>>
    /\ UNCHANGED libRest

\* the next run: reloadEventIds reads the file the run left
RtReload ==
    /\ ~rtLoaded.done
    /\ rtLoaded' = [done |-> TRUE, map |-> ScanLines(rtFile, EmptyMap)]
    /\ UNCHANGED <<rtIndex, rtFile, rtCount, shardVars, loopVars>>
    /\ UNCHANGED libRest

RtOff ==
    /\ rtIndex = EmptyMap
    /\ rtFile = <<>>
    /\ rtCount = MaxPersists
    /\ rtLoaded = NotLoaded

RtInit ==
    /\ rtIndex = EmptyMap
    /\ rtFile = <<>>
    /\ rtCount = 0
    /\ rtLoaded = NotLoaded

NextRoundTrip ==
    \/ RtPersist
    \/ RtCompact
    \/ RtReload

(***************************************************************************)
(* The loops MainLoop starts and the two channels of capacity 5 between    *)
(* them: RunLoop sends on triggerReregistrationCh and receives from        *)
(* regInfoUpdatesCh, the supervisor does the opposite.  A ticker can have  *)
(* a value ready whenever the supervisor comes back to its select: no call *)
(* of the supervisor has a timeout.                                        *)
(***************************************************************************)
MaxExecuting == 1

\* RunLoop's select (lines 143-151): a waiting update is received and the
\* client is rebuilt; `default` is taken when there is none
LoopSelect ==
    /\ loopWorker = "select"
    /\ IF loopUpdatesCh > 0
       THEN loopUpdatesCh' = loopUpdatesCh - 1 /\ loopWorker' = "select"
       ELSE loopUpdatesCh' = loopUpdatesCh /\ loopWorker' = "poll"
    /\ UNCHANGED <<loopSupervisor, loopTriggerCh, loopFailures, loopLogError,
                   loopExecuting, status, lastUpdate>>
    /\ UNCHANGED loopRest

\* getMessages returned without error (lines 153-220); a message of the
\* batch may have become an execution
LoopPollSucceeded ==
    /\ loopWorker = "poll"
    /\ loopWorker' = "select"
    /\ loopLogError' = TRUE
    /\ loopFailures' = 0
    /\ SetStatus(QueuePollingSucceeded)
    /\ \E accepted \in BOOLEAN :
          loopExecuting' = IF accepted /\ loopExecuting < MaxExecuting
                           THEN loopExecuting + 1 ELSE loopExecuting
    /\ UNCHANGED <<loopSupervisor, loopTriggerCh, loopUpdatesCh>>
    /\ UNCHANGED loopRest

\* getMessages returned an error (lines 221-239), up to the send
LoopPollFailed ==
    /\ loopWorker = "poll"
    /\ LET r == OnPollFailure(loopFailures, loopLogError)
       IN  /\ loopFailures' = r.numFailures
           /\ loopLogError' = r.shouldLogError
           /\ loopWorker' = IF r.trigger THEN "send" ELSE "select"
    /\ UNCHANGED <<loopSupervisor, loopTriggerCh, loopUpdatesCh, loopExecuting,
                   status, lastUpdate>>
    /\ UNCHANGED loopRest

\* `regChannel <- time.Now()` (line 237): waits for room in the channel
LoopSendTrigger ==
    /\ loopWorker = "send"
    /\ loopTriggerCh < triggerReregistrationCap
    /\ loopTriggerCh' = loopTriggerCh + 1
    /\ loopWorker' = "select"
    /\ UNCHANGED <<loopSupervisor, loopUpdatesCh, loopFailures, loopLogError,
                   loopExecuting, status, lastUpdate>>
    /\ UNCHANGED loopRest

\* the end of ExecuteAction after the emission: UpdateStatus(Active)
LoopExecuted ==
    /\ loopExecuting > 0
    /\ loopExecuting' = loopExecuting - 1
    /\ SetStatus(Active)
    /\ UNCHANGED <<loopWorker, loopSupervisor, loopTriggerCh, loopUpdatesCh,
                   loopFailures, loopLogError>>
    /\ UNCHANGED loopRest

\* the supervisor's select (cmd/agent/main.go lines 206-224): one of the
\* cases that are ready
SupervisorSelect ==
    /\ loopSupervisor = "select"
    /\ \E case \in {"heartbeatTickerCh", "uploadLogsTickerCh",
                    "triggerReregistrationCh", "registrationTickerCh"} :
          /\ case = "triggerReregistrationCh" => loopTriggerCh > 0
          /\ loopTriggerCh' = IF case = "triggerReregistrationCh"
                              THEN loopTriggerCh - 1 ELSE loopTriggerCh
          /\ loopSupervisor' = CASE case = "heartbeatTickerCh" -> "beat"
                                 [] case = "uploadLogsTickerCh" -> "upload"
                                 [] OTHER -> "register"
    /\ UNCHANGED <<loopWorker, loopUpdatesCh, loopFailures, loopLogError,
                   loopExecuting, status, lastUpdate>>
    /\ UNCHANGED loopRest

\* api.Beat or api.UploadLogs has returned (lines 208-217); an error is logged
SupervisorPosted ==
    /\ loopSupervisor \in {"beat", "upload"}
    /\ loopSupervisor' = "select"
    /\ UNCHANGED <<loopWorker, loopTriggerCh, loopUpdatesCh, loopFailures,
                   loopLogError, loopExecuting, status, lastUpdate>>
    /\ UNCHANGED loopRest

\* registerAgent, RegisterAgent returned an error or no AgentId (lines 90-94, 101-104)
SupervisorRegisterFailed ==
    /\ loopSupervisor = "register"
    /\ loopSupervisor' = "select"
    /\ SetStatus(RegistrationFailed)
    /\ UNCHANGED <<loopWorker, loopTriggerCh, loopUpdatesCh, loopFailures,
                   loopLogError, loopExecuting>>
    /\ UNCHANGED loopRest

\* Variant of SupervisorRegistered that records the success in the status
\* register (sensitivity variant for C37).
SupervisorRegisteredSetsStatus ==
    /\ loopSupervisor = "register"
    /\ loopSupervisor' = "notify"
    /\ SetStatus(RegistrationSucceeded)
    /\ UNCHANGED <<loopWorker, loopTriggerCh, loopUpdatesCh, loopFailures,
                   loopLogError, loopExecuting>>
    /\ UNCHANGED loopRest

\* registerAgent, the response has an AgentId: it is copied (line 99)
SupervisorRegistered ==
    /\ loopSupervisor = "register"
    /\ loopSupervisor' = "notify"
    /\ UNCHANGED <<loopWorker, loopTriggerCh, loopUpdatesCh, loopFailures,
                   loopLogError, loopExecuting, status, lastUpdate>>
    /\ UNCHANGED loopRest

\* `regInfoUpdatesCh <- "updated"` (line 100): waits for room in the channel
SupervisorNotify ==
    /\ loopSupervisor = "notify"
    /\ loopUpdatesCh < regInfoUpdatesCap
    /\ loopUpdatesCh' = loopUpdatesCh + 1
    /\ loopSupervisor' = "select"
    /\ UNCHANGED <<loopWorker, loopTriggerCh, loopFailures, loopLogError,
                   loopExecuting, status, lastUpdate>>
    /\ UNCHANGED loopRest

LoopOff ==
    /\ loopWorker = "off"
    /\ loopSupervisor = "off"
    /\ loopTriggerCh = 0
    /\ loopUpdatesCh = 0
    /\ loopFailures = 0
    /\ loopLogError = TRUE
    /\ loopExecuting = 0

LoopInit ==
    /\ loopWorker = "select"
    /\ loopSupervisor = "select"
    /\ loopTriggerCh = 0
    /\ loopUpdatesCh = 0
    /\ loopFailures = 0
    /\ loopLogError = TRUE
    /\ loopExecuting = 0

NextLoops ==
    \/ LoopSelect
    \/ LoopPollSucceeded
    \/ LoopPollFailed
    \/ LoopSendTrigger
    \/ LoopExecuted
    \/ SupervisorSelect
    \/ SupervisorPosted
    \/ SupervisorRegisterFailed
    \/ SupervisorRegistered
    \/ SupervisorNotify

\* the components outside the pipeline at rest
\* no function call modelled
LibOff == ShardOff /\ RtOff /\ LoopOff

ExtInit == ErrInit /\ ExecOff /\ UrlOff /\ BootOff /\ LibOff

(***************************************************************************)
(* The state when MainLoop has registered and starts its goroutines.       *)
(***************************************************************************)
\* what a previous run may have left in the .events file
InitialFiles ==
    {NoFile, EmptyFile,
     [exists |-> TRUE, lines |-> <<FormatRecord("E1", UnixSeconds(StartTime - ClockStep))>>]}

\* the pipeline's channels, goroutines and store before anything has run
PipelineEmpty ==
    /\ now = StartTime
    /\ ticks = 0
    /\ tickPending = FALSE
    /\ deliveries = <<>>
    /\ batch = <<>>
    /\ deleteCalls = [h \in Handles |-> 0]
    /\ visCalls = {}
    /\ events = <<>>
    /\ emitted = {}
    /\ loopVar = 0
    /\ tasks = <<>>
    /\ index = EmptyMap
    /\ file \in InitialFiles
    /\ spc = "load"
    /\ spending = ""
    /\ githubKey \in {"", "token"}
    /\ spawnCount = [e \in EventIds |-> 0]
    /\ actionOutputs = <<>>
    /\ wtrace = [h \in 1 .. 2 |-> <<>>]

PipelineInit ==
    /\ status = RegistrationSucceeded
    /\ lastUpdate = <<ConfigReadSucceeded, RegistrationSucceeded>>
    /\ PipelineEmpty

Init == PipelineInit /\ RegInit /\ KillOff /\ ExtInit

Next ==
    \/ WorkerPoll
    \/ WorkerHandle
    \/ FanOut
    \/ \E t \in TaskIds : TaskRead(t)
    \/ \E t \in TaskIds : GateDup(t)
    \/ \E t \in TaskIds : GateStale(t)
    \/ \E t \in TaskIds : Materialize(t)
    \/ \E t \in TaskIds : PersistEvent(t)
    \/ \E t \in TaskIds : StartCommand(t)
    \/ \E t \in TaskIds : DeleteAfterStart(t)
    \/ \E t \in TaskIds : WaitCommand(t)
    \/ \E t \in TaskIds : SendOutput(t)
    \/ \E t \in TaskIds : SetActive(t)
    \/ DrainOutput
    \/ StoreLoad
    \/ StoreApply
    \/ StoreCompact
    \/ Tick

Spec == Init /\ [][Next]_vars

\* the pipeline at rest
PipelineIdle == PipelineInit /\ file = NoFile /\ githubKey = ""

\* The worker's polls, the supervisor's registrations and the queue clients.
InitReg == PipelineIdle /\ RegInit /\ KillOff /\ ExtInit
SpecReg == InitReg /\ [][NextReg]_vars

\* One started subprocess.  The agent's goroutines keep running and the timer
\* fires; a process need not ever exit by itself.
InitKill == PipelineIdle /\ RegInit /\ KillInit /\ ExtInit
SpecKill ==
    /\ InitKill
    /\ [][NextKill]_vars
    /\ WF_vars(WaitReap)
    /\ WF_vars(WaitCopied)
    /\ WF_vars(TimerFires \/ SelectDone)
    /\ WF_vars(KillCommand)
    /\ WF_vars(DrainWait)
    /\ WF_vars(EmitResult)


\* The error channel, its reporters and its uploading goroutine.
InitErr == PipelineIdle /\ RegInit /\ KillOff /\ ExtInit
SpecErr == InitErr /\ [][NextErr]_vars

\* One call of ExecuteAction past the gates.
InitExec ==
    PipelineIdle /\ RegInit /\ KillOff /\ ErrInit /\ ExecInit /\ UrlOff /\ BootOff /\ LibOff
SpecExec == InitExec /\ [][NextExec]_vars

\* One call of joinURL.
InitUrl ==
    PipelineIdle /\ RegInit /\ KillOff /\ ErrInit /\ ExecOff /\ UrlInit /\ BootOff /\ LibOff
SpecUrl == InitUrl /\ [][NextUrl]_vars

\* Start-up.  The status register has Go's zero value.
InitBoot ==
    /\ status = 0
    /\ lastUpdate = <<0, 0>>
    /\ PipelineEmpty /\ file = NoFile /\ githubKey = ""
    /\ RegInit /\ KillOff /\ ErrInit /\ ExecOff /\ UrlOff /\ BootInit /\ LibOff
SpecBoot == InitBoot /\ [][NextBoot]_vars

\* One call of GetShard, on a build target with 32-bit or with 64-bit int.
InitShard ==
    /\ PipelineIdle /\ RegInit /\ KillOff /\ ErrInit /\ ExecOff /\ UrlOff /\ BootOff
    /\ ShardInit /\ RtOff /\ LoopOff
SpecShard == InitShard /\ [][NextShard]_vars

\* One run of the event store without I/O failures, then a restart.
InitRoundTrip ==
    /\ PipelineIdle /\ RegInit /\ KillOff /\ ErrInit /\ ExecOff /\ UrlOff /\ BootOff
    /\ ShardOff /\ RtInit /\ LoopOff
SpecRoundTrip == InitRoundTrip /\ [][NextRoundTrip]_vars

\* The worker's loop, the supervisor's loop and the executions, from the
\* state in which MainLoop starts them.
InitLoops ==
    /\ PipelineIdle /\ RegInit /\ KillOff /\ ErrInit /\ ExecOff /\ UrlOff /\ BootOff
    /\ ShardOff /\ RtOff /\ LoopInit
SpecLoops == InitLoops /\ [][NextLoops]_vars


(***************************************************************************)
(* Properties.                                                             *)
(***************************************************************************)
\* delivery rh has been through the worker's loop body
Handled(rh) == rh \in 1 .. Len(deliveries) /\ \A i \in 1 .. Len(batch) : batch[i] # rh

\* some executor goroutine has taken the event of delivery rh as its argument
ReachedExecutor(rh) == \E t \in TaskIds : tasks[t].pc # "read" /\ tasks[t].ev = rh

BadSignature(m) == m.attr = LocalAgent /\ m.sig \in {"garbled", "forged"}

WrongPayloadAgent(m) ==
    /\ m.attr = LocalAgent
    /\ m.sig = "signed"
    /\ (m.body = "garbage" \/ m.agentId # LocalAgent)

\* C1: for every eventId at most one subprocess is started, whatever the
\* interleaving of the executor goroutines that carry it.
C1_OneSubprocessPerEventId == \A e \in EventIds : spawnCount[e] <= 1

\* C2: a message with agentId attribute = local agent whose signature is
\* present but does not verify is never emitted and never reaches the
\* executor, and once the worker has handled it DeleteMessage has been called
\* for it exactly once.
C2_BadSignatureDeleted ==
    \A rh \in 1 .. Len(deliveries) :
        BadSignature(deliveries[rh]) =>
            /\ rh \notin emitted
            /\ ~ReachedExecutor(rh)
            /\ deleteCalls[rh] = IF Handled(rh) THEN 1 ELSE 0

C2_Witness ==
    \E rh \in 1 .. Len(deliveries) :
        /\ deliveries[rh].attr = LocalAgent /\ deliveries[rh].sig = "forged"
        /\ Handled(rh)
        /\ deleteCalls[rh] = 1

\* C3: a message whose agentId attribute names another agent is never deleted
\* by this agent, never emitted and never executed, and once handled the only
\* visibility call for it is ChangeMessageVisibility with timeout 0.
C3_MisaddressedReleased ==
    \A rh \in 1 .. Len(deliveries) :
        deliveries[rh].attr = OtherAgent =>
            /\ deleteCalls[rh] = 0
            /\ rh \notin emitted
            /\ ~ReachedExecutor(rh)
            /\ {c \in visCalls : c[1] = rh} = IF Handled(rh) THEN {<<rh, 0>>} ELSE {}

C3_Witness ==
    \E rh \in 1 .. Len(deliveries) :
        /\ deliveries[rh].attr = OtherAgent
        /\ Handled(rh)
        /\ <<rh, 0>> \in visCalls

\* C4: a message with agentId attribute = local agent and a signature that
\* verifies, whose decoded payload names another agent (or none), is never
\* emitted and never executed, and once handled DeleteMessage has been called
\* for it exactly once.
C4_WrongPayloadDeleted ==
    \A rh \in 1 .. Len(deliveries) :
        WrongPayloadAgent(deliveries[rh]) =>
            /\ rh \notin emitted
            /\ ~ReachedExecutor(rh)
            /\ deleteCalls[rh] = IF Handled(rh) THEN 1 ELSE 0

C4_Witness ==
    \E rh \in 1 .. Len(deliveries) :
        /\ deliveries[rh].attr = LocalAgent /\ deliveries[rh].sig = "signed"
        /\ deliveries[rh].body = "ok" /\ deliveries[rh].agentId = OtherAgent
        /\ Handled(rh)
        /\ deleteCalls[rh] = 1

\* C5: an executor goroutine that is past the gates (up to and including its
\* call of Start) carries an event that was at most stalenessTimeout older
\* than the clock read at the gate: no subprocess is started for an event
\* that was more than 600000 ms old at the gate check.
C5_StaleNeverExecuted ==
    \A t \in TaskIds :
        tasks[t].pc \in {"materialize", "persist", "start", "delete"} =>
            ~(tasks[t].currentMillis - EventOfTask(t).Timestamp > 600000)

C5_Witness ==
    \E t \in TaskIds :
        /\ tasks[t].exit = "stale"
        /\ now - EventOfTask(t).Timestamp > 600000
        /\ \E u \in TaskIds : tasks[u].pc = "delete" /\ tasks[u].startOk

\* C6: in every executor goroutine DeleteMessage is called after Start has
\* returned and before the wait for the exit begins: when the goroutine
\* waits its calls so far are Start, Delete, and Start is always directly
\* followed by Delete.
C6_DeleteBetweenStartAndWait ==
    \A t \in TaskIds :
        LET tr == tasks[t].trace
        IN  /\ tasks[t].pc = "wait" =>
                 /\ tr = <<"Start", "Delete">>
                 /\ deleteCalls[EventOfTask(t).ReceiptHandle] >= 1
            /\ \A i \in 1 .. Len(tr) :
                 /\ tr[i] = "Wait" => i = 3 /\ tr[1] = "Start" /\ tr[2] = "Delete"
                 /\ tr[i] = "Emit" => tr[1] = "Start" /\ tr[2] = "Delete"

C6_Witness ==
    \E t \in TaskIds :
        /\ tasks[t].pc = "send"
        /\ tasks[t].trace = <<"Start", "Delete", "Wait">>

\* C7: when the timer fires and the subprocess is killed, the result has
\* status TIMEOUT and isTimeout = true, whatever the wait after the kill
\* returns.
C7_TimeoutReported ==
    \A t \in TaskIds :
        tasks[t].pc = "send" /\ tasks[t].killed =>
            tasks[t].out.status = "TIMEOUT" /\ tasks[t].out.isTimeout

\* C8: when no timeout fires, exit code 0 gives SUCCESS with status code 0, a
\* non-zero exit code n gives FAILED with status code n, a failed Start gives
\* FAILED with status code 1, and isTimeout is false in all three cases.
C8_ExitClassification ==
    \A t \in TaskIds :
        tasks[t].pc = "send" /\ ~tasks[t].killed =>
            LET w == tasks[t].wres
                out == tasks[t].out
            IN  /\ ~out.isTimeout
                /\ ~("Wait" \in {tasks[t].trace[i] : i \in 1 .. Len(tasks[t].trace)}) =>
                      out.status = "FAILED" /\ out.statusCode = 1
                /\ w.kind = "exit" /\ w.code = 0 =>
                      out.status = "SUCCESS" /\ out.statusCode = 0
                /\ w.kind = "exit" /\ w.code # 0 =>
                      out.status = "FAILED" /\ out.statusCode = w.code

C8_Witness ==
    \E t \in TaskIds :
        /\ tasks[t].pc = "send" /\ ~tasks[t].killed
        /\ tasks[t].wres = [kind |-> "exit", code |-> 3]
        /\ tasks[t].out = [status |-> "FAILED", statusCode |-> 3, isTimeout |-> FALSE]

\* C9: when UpdateStatus(QueuePollingSucceeded) is called while the status is
\* Active, the status is Active afterwards.
C9_ActiveIsSticky ==
    lastUpdate = <<Active, QueuePollingSucceeded>> => status = Active

C9_Witness == lastUpdate = <<Active, QueuePollingSucceeded>> /\ status = Active

\* the entries of the index and of the .events file, as <<eventId, seconds>>
IndexEntries(m) == {<<k, m[k]>> : k \in DOMAIN m}
FileEntries(f) == {SplitRecord(f.lines[i]) : i \in 1 .. Len(f.lines)}

\* the step in which the store goroutine serves a compaction tick
CompactionStep == tickPending /\ ~tickPending'

\* the index after a compaction: entries more than 30 minutes old are gone,
\* the others are unchanged
IndexCompacted ==
    \A k \in DOMAIN index :
        IF now - index[k] * 1000 > 1800000
        THEN k \notin DOMAIN index'
        ELSE k \in DOMAIN index' /\ index'[k] = index[k]

C11_IndexCoversAcceptable ==
    [][CompactionStep =>
          \A k \in DOMAIN index \ DOMAIN index' :
              \A rh \in 1 .. Len(deliveries) :
                  EventOf(rh).EventId = k => now - EventOf(rh).Timestamp > 600000]_vars

\* C12: every poll the worker starts after a registration response has been
\* stored in RegistrationInfo is made with a client built from that response
\* (or a newer one).
C12_PollUsesNewCredentials ==
    wpc = "polling" => \A f \in CredFields : svc[f] >= pollReplaced

\* C13: every queue client the agent builds (the worker's and the one inside
\* DeleteMessage) has its access key, secret key, security token and queue
\* endpoint from one registration response.
C13_ClientFromOneResponse ==
    \A f \in CredFields, g \in CredFields :
        svc[f] = svc[g] /\ delClient[f] = delClient[g]

\* C14: the worker sends a re-registration trigger exactly in the step in
\* which the run of consecutive failed polls reaches 10, 20, ...; the counter
\* is zero after a trigger and after a successful poll, and otherwise counts
\* the failures since the last of those.
C14_TriggerEveryTenFailures ==
    [][/\ (triggerReregistrationCh' = triggerReregistrationCh + 1)
            <=> (failedRun' = failedRun + 1 /\ failedRun' % 10 = 0)
       /\ numFailures' = failedRun' % 10]_vars

C14_Witness ==
    /\ failedRun = 20
    /\ numFailures = 0
    /\ triggerReregistrationCh = 2

\* the steps made for the event of goroutine t, the worker's first
StepsOf(t) == wtrace[tasks[t].ev] \o tasks[t].trace

\* the steps of s occur in the order in which `order` lists them
Rank(step, order) == CHOOSE a \in 1 .. Len(order) : order[a] = step
InOrder(s, order) ==
    \A i \in 1 .. Len(s) - 1 : Rank(s[i], order) < Rank(s[i + 1], order)

HasEvent(t) == t \in TaskIds /\ tasks[t].pc # "read"

\* C15 as stated: for every accepted message the order is verify, emit on the
\* events channel, visibility extension, subprocess start, queue delete,
\* wait, result emit.
C15_EmitBeforeVisibility ==
    \A t \in TaskIds :
        HasEvent(t) =>
            InOrder(StepsOf(t),
                    <<"Verify", "EmitEvent", "Visibility", "Start", "Delete", "Wait", "Emit">>)

\* C15 amended: for every accepted message the order is verify, visibility
\* extension, emit on the events channel, subprocess start, queue delete,
\* wait, result emit.
C15_VisibilityBeforeEmit ==
    \A t \in TaskIds :
        HasEvent(t) =>
            InOrder(StepsOf(t),
                    <<"Verify", "Visibility", "EmitEvent", "Start", "Delete", "Wait", "Emit">>)

C15_Witness ==
    \E t \in TaskIds :
        /\ HasEvent(t)
        /\ StepsOf(t) =
              <<"Verify", "Visibility", "EmitEvent", "Start", "Delete", "Wait", "Emit">>

\* C16: when the subprocess of an event has just been started, the eventId is
\* in the in-memory index.
C16_PersistedBeforeStart ==
    \A t \in TaskIds :
        tasks[t].pc = "delete" /\ tasks[t].startOk =>
            EventOfTask(t).EventId \in DOMAIN index

\* C17: a message with agentId attribute = local agent and no signature
\* attribute has been deleted once the worker has handled it.
C17_MissingSignatureDeleted ==
    \A rh \in 1 .. Len(deliveries) :
        deliveries[rh].attr = LocalAgent /\ deliveries[rh].sig = NoAttr /\ Handled(rh) =>
            deleteCalls[rh] >= 1

\* every goroutine has returned and nothing is left in the channels
Quiescent ==
    /\ batch = <<>>
    /\ events = <<>>
    /\ \A t \in TaskIds : tasks[t].pc = "done"

\* C18: when the pipeline has run to completion, DeleteMessage has been called
\* exactly once for every message whose event the worker emitted.
C18_EmittedDeletedOnce ==
    Quiescent => \A rh \in emitted : deleteCalls[rh] = 1

\* C19: for a started subprocess execute() eventually returns and the result
\* is emitted.
C19_StartedLeadsToOutput == (kpc = "select") ~> (kpc = "emitted")

\* C20: after a kill on timeout, SIGTERM has been delivered to every process
\* that was alive in the child's process group.
C20_SignalReachesGroup ==
    kpc \in {"drain", "classifyTimeout", "emitted"} => groupAtKill \subseteq termSent

\* a registration attempt that failed: the supervisor took a trigger or a tick
\* and no new response was accepted
FailedAttempt ==
    /\ regCount' = regCount
    /\ \/ triggerReregistrationCh' = triggerReregistrationCh - 1
       \/ lastUpdate' # lastUpdate /\ lastUpdate'[2] = RegistrationFailed

\* C21: a successful re-registration replaces RegistrationInfo by the new
\* response and sends exactly one notification, after the replacement; a
\* failed one leaves RegistrationInfo unchanged, sends no notification and
\* sets the status to RegistrationFailed.
C21_RegistrationOutcome ==
    [][/\ regInfoUpdatesCh' > regInfoUpdatesCh =>
             /\ regInfoUpdatesCh' = regInfoUpdatesCh + 1
             /\ signalled < response /\ signalled' = response
             /\ regInfo = [f \in CredFields |-> response]
       /\ SupervisorIdle' => signalled' = regCount' /\ regInfo' = [f \in CredFields |-> regCount']
       /\ FailedAttempt =>
             /\ regInfo' = regInfo
             /\ regInfoUpdatesCh' = regInfoUpdatesCh
             /\ status' = RegistrationFailed]_vars

C21_Witness ==
    /\ regCount = 1
    /\ signalled = 1
    /\ regInfo = [f \in CredFields |-> 1]
    /\ status = RegistrationFailed
    /\ lastUpdate[1] # RegistrationFailed


\* C22: the channel never holds more than 10 messages, and a reporter that
\* is at its send while 10 messages are pending can complete the send at once
\* (room is made by dropping the oldest message); it never has to wait.
C22_FullChannelMakesRoom ==
    /\ Len(ErrorsChannel) <= 10
    /\ \A r \in Reporters :
          rpc[r] = "send" /\ Len(ErrorsChannel) = 10 => ENABLED ReportSend(r)

\* C23: the actionOutput and the failureReason of the message sent are the
\* prefix of length 10 MiB - 1 of stdout and of stderr when the stream is
\* longer than 10 MiB, and the whole stream otherwise.
C23_TruncatedToLimit ==
    xpc \in {"return", "returned"} /\ xout.Status # "" =>
        /\ xout.ActionOutput =
              [src |-> "stdout",
               len |-> IF stdout.len > 10 * 1024 * 1024 THEN 10 * 1024 * 1024 - 1
                       ELSE stdout.len]
        /\ xout.FailureReason =
              [src |-> "stderr",
               len |-> IF stderr.len > 10 * 1024 * 1024 THEN 10 * 1024 * 1024 - 1
                       ELSE stderr.len]

C23_Witness ==
    /\ xpc = "returned"
    /\ stdout.len = 10 * 1024 * 1024 + 1
    /\ stderr.len = 10 * 1024 * 1024
    /\ xout.ActionOutput.len = 10 * 1024 * 1024 - 1
    /\ xout.FailureReason.len = 10 * 1024 * 1024

\* C27: when ExecuteAction has returned, the temp script file does not exist.
C27_TmpFileRemoved == xpc = "returned" => ~tmpFile

\* the tokens of s that are not slashes
RECURSIVE NoSlashes(_)
NoSlashes(s) ==
    IF s = <<>> THEN <<>>
    ELSE IF s[1] = "/" THEN NoSlashes(Tail(s))
    ELSE <<s[1]>> \o NoSlashes(Tail(s))

\* s has two slashes in a row at or after position `from`
DoubleSlashFrom(s, from) == \E i \in from .. Len(s) - 1 : s[i] = "/" /\ s[i + 1] = "/"

\* the arguments of the example: endpoint e and the path arguments a, /b/, c
ExampleCall(e) ==
    urlIn = [endpoint |-> e, args |-> <<(<<"a">>), (<<"/", "b", "/">>), (<<"c">>)>>]

ExampleURL ==
    <<"https:", "/", "/", "x.example", "/", "api", "/", "v1", "/", "agent", "/",
      "a", "/", "b", "/", "c">>

\* C24 as stated: joinURL with endpoint https://x.example/ and the path
\* arguments a, /b/, c returns https://x.example/api/v1/agent/a/b/c.
C24_SchemeOnce ==
    ExampleCall(<<"https:", "/", "/", "x.example", "/">>) /\ urlOut # NoURL =>
        urlOut = ExampleURL

\* C24 amended: joinURL puts https:// in front of the endpoint as it is given,
\* without the slashes at its end, then /api/v1/agent/, then the arguments,
\* each without its leading and trailing slashes, joined by single slashes.
\* With endpoint x.example/ and the arguments a, /b/, c the result is
\* https://x.example/api/v1/agent/a/b/c; an endpoint that already has a
\* scheme gets a second one.
C24_SchemePrepended ==
    urlOut # NoURL =>
        /\ ExampleCall(<<"x.example", "/">>) => urlOut = ExampleURL
        /\ SubSeq(urlOut, 1, 3 + Len(TrimRight(urlIn.endpoint)))
              = <<"https:", "/", "/">> \o TrimRight(urlIn.endpoint)
        /\ NoSlashes(urlOut) =
              <<"https:">> \o NoSlashes(urlIn.endpoint) \o <<"api", "v1", "agent">>
                 \o NoSlashes(Join(urlIn.args, <<>>))
        /\ (\A i \in 1 .. Len(urlIn.args) : Trim(urlIn.args[i]) # <<>>)
              /\ urlIn.endpoint[1] # "https:"
              => ~DoubleSlashFrom(urlOut, 3) /\ urlOut[Len(urlOut)] # "/"

C24_Witness == ExampleCall(<<"x.example", "/">>) /\ urlOut = ExampleURL

\* the flags and the config file have been merged
Merged == bpc \notin {"off", "flags", "getconfig"} /\ ~(configFilePath # "" /\ ~cfgFile.ok)

\* C25: when a config file was read, the effective endpoint and the effective
\* api key are the command-line values where those are non-empty and the
\* file's values otherwise, and the Agent section is the file's.
C25_MergePrecedence ==
    Merged /\ configFilePath # "" =>
        /\ neptuneConfig.Endpoint =
              IF flags.endpoint # "" THEN flags.endpoint ELSE cfgFile.Neptune.Endpoint
        /\ neptuneConfig.ApiKey =
              IF flags.api_key # "" THEN flags.api_key ELSE cfgFile.Neptune.ApiKey
        /\ agentConfig = cfgFile.Agent

C25_Witness ==
    /\ Merged
    /\ flags.endpoint = "flag.example" /\ cfgFile.Neptune.Endpoint = "file.example"
    /\ flags.api_key = "" /\ cfgFile.Neptune.ApiKey = "filekey"
    /\ neptuneConfig = [ApiKey |-> "filekey", Endpoint |-> "flag.example"]
    /\ agentConfig.GithubApiKey = "token"

\* C26: when the config file is read, neither the --endpoint flag nor the
\* file gives an endpoint and an api key is given, the effective endpoint is www.neptune.io and the
\* validation of the config passes.
C26_DefaultEndpoint ==
    /\ bpc \notin {"off", "flags", "getconfig", "validate"}
    /\ flags.endpoint = ""
    /\ configFilePath # "" /\ cfgFile.ok /\ cfgFile.Neptune.Endpoint = ""
    /\ flags.api_key # "" \/ cfgFile.Neptune.ApiKey # ""
    => neptuneConfig.Endpoint = "www.neptune.io" /\ status # ConfigReadFailed

\* the delays of the registration loop: 30, 60, ..., 270, 300, 300, ...; the
\* loop is left only by a call that succeeded
BackoffSchedule ==
    /\ \A k \in 1 .. Len(sleeps) :
          /\ k <= 10 => sleeps[k] = 30 * k
          /\ k > 10 => sleeps[k] = 300
    /\ bpc \in {"register", "sleep"} => attempts = Len(sleeps)
    /\ bpc = "sleep" => sleeps # <<>>
    /\ bpc = "exit" => attempts = 0

\* C28 as stated: the sleep after the i-th failed attempt is min(30 i, 300)
\* seconds, the loop ends only with a successful call, and no worker, ticker
\* or store loop is started before a registration call has succeeded.
C28_NothingStartedBeforeRegistration ==
    /\ BackoffSchedule
    /\ started # {} => attempts = Len(sleeps) + 1 /\ bpc = "running"

\* C28 amended: as stated, but for the tickers and loops that MainLoop
\* starts; the event store's compaction ticker runs from program start.
C28_MainLoopStartsAfterRegistration ==
    /\ BackoffSchedule
    /\ started \ {"eventReloadCh"} # {} => attempts = Len(sleeps) + 1 /\ bpc = "running"

C28_Witness ==
    /\ bpc = "running"
    /\ Len(sleeps) = 11
    /\ sleeps[9] = 270 /\ sleeps[10] = 300 /\ sleeps[11] = 300
    /\ "worker" \in started

\* the exits of ExecuteAction at its three gates
GateExits == {"duplicate", "stale", "policy"}

C30_MissingAgentIdSkipped ==
    \A rh \in 1 .. Len(deliveries) :
        deliveries[rh].attr = NoAttr =>
            /\ deleteCalls[rh] = 0
            /\ \A v \in visCalls : v[1] # rh
            /\ rh \notin emitted
            /\ \A k \in 1 .. Len(events) : events[k] # rh
            /\ ~ReachedExecutor(rh)

C30_Witness ==
    \E rh \in 1 .. Len(deliveries) :
        /\ deliveries[rh].attr = NoAttr
        /\ Handled(rh)
        /\ Len(deliveries) = 2
        /\ \A h \in 1 .. 2 : Handled(h)

\* a task that has put its ActionOutput on the results channel and has not
\* yet returned from ExecuteAction
HasEmitted(t) ==
    /\ tasks[t].pc = "active"
    /\ tasks[t].trace # <<>>
    /\ tasks[t].trace[Len(tasks[t].trace)] = "Emit"

\* C31: the status is set to Active only by a call that follows the emission
\* of an ActionOutput to the results channel, and the call that follows an
\* emission always leaves the status Active.
C31_ActiveOnlyAfterEmission ==
    [][/\ (lastUpdate' # lastUpdate /\ lastUpdate'[2] = Active) =>
              \E t \in DOMAIN tasks : HasEmitted(t) /\ tasks'[t].pc = "done"
       /\ (status' = Active /\ status # Active) =>
              \E t \in DOMAIN tasks : HasEmitted(t) /\ tasks'[t].pc = "done"
       /\ \A t \in DOMAIN tasks :
              (HasEmitted(t) /\ tasks'[t].pc = "done") => status' = Active]_vars

C31_Witness ==
    /\ status = Active
    /\ lastUpdate[2] = Active
    /\ lastUpdate[1] # Active
    /\ \E t \in DOMAIN tasks : tasks[t].pc = "done" /\ tasks[t].exit = "executed"

\* fnv32(key) mod 32, from the two halves of the hash
HashMod(key) == fnv32(key).lo % SHARD_COUNT

\* C32: the shard index of every key is fnv32(key) mod 32 and lies in
\* 0..31, with 32-bit int as with 64-bit int; the indexing never panics.
C32_ShardInRange ==
    shardOut.called =>
        /\ ~shardOut.panic
        /\ shardOut.index \in 0 .. SHARD_COUNT - 1
        /\ shardOut.index = HashMod(shardKey)

\* with 64-bit int the index is the hash modulo 32
ShardInRange64 ==
    (shardOut.called /\ intSize = 64) =>
        ~shardOut.panic /\ shardOut.index = HashMod(shardKey)

\* C33: the mapping the next run loads from the .events file is the mapping
\* the index held when the run ended, for every eventId, also one that
\* contains the separator.
C33_RoundTrip == rtLoaded.done => rtLoaded.map = rtIndex

\* the round trip for eventIds without separator
RoundTripPlain ==
    (rtLoaded.done /\ \A k \in DOMAIN rtIndex : Len(k) = 1) => rtLoaded.map = rtIndex

\* C34: every event received from the events channel is the argument of
\* exactly one ExecuteAction call: no two tasks run the same event, and once
\* every task has read its argument no received event is without a task.
C34_OneTaskPerEvent ==
    /\ \A t1, t2 \in TaskIds :
          (t1 # t2 /\ HasEvent(t1) /\ HasEvent(t2)) => tasks[t1].ev # tasks[t2].ev
    /\ (\A t \in TaskIds : HasEvent(t)) =>
          \A rh \in emitted :
              (\E i \in 1 .. Len(events) : events[i] = rh) \/ (\E t \in TaskIds : tasks[t].ev = rh)

\* C35: the worker is never blocked in its send on the full re-register
\* trigger channel while the supervisor is blocked in its send on the full
\* registration-updated channel.
C35_NeverBothBlocked ==
    ~(/\ loopWorker = "send"
      /\ loopTriggerCh = triggerReregistrationCap
      /\ loopSupervisor = "notify"
      /\ loopUpdatesCh = regInfoUpdatesCap)

\* C37: when the status is Active, a step changes it to nothing but
\* RegistrationFailed, and only the step of a failed re-registration does;
\* poll results, heartbeats, log uploads and successful re-registrations
\* leave it Active.
C37_ActiveLeftOnlyByFailedRegistration ==
    [][(status = Active /\ status' # Active) =>
           /\ status' = RegistrationFailed
           /\ loopSupervisor = "register"
           /\ loopSupervisor' = "select"]_vars

C37_Witness ==
    /\ lastUpdate = <<Active, RegistrationFailed>>
    /\ status = RegistrationFailed
    /\ loopSupervisor = "select"
    /\ loopUpdatesCh > 0

\* C36: when the worker has been started, the RegistrationInfo it was
\* started with has a non-empty AgentId.
C36_WorkerHasAgentId == "worker" \in started => Len(registrationInfo) > 0

\* the eventIds the lines of the .events file record
RecordedIds(f) == {SplitRecord(f.lines[i])[1] : i \in 1 .. Len(f.lines)}

\* C38: while the store's task has not finished loading the file a previous
\* run left, no execution has passed the duplicate check with an eventId
\* that file records: such an event is discarded as a duplicate.
C38_RecordedEventIsDuplicate ==
    \A t \in TaskIds :
        (/\ spc = "load"
         /\ file.exists
         /\ tasks[t].pc \notin {"read", "gate_dup"}
         /\ EventOfTask(t).EventId \in RecordedIds(file)) => tasks[t].exit = "duplicate"

\* the number of ActionOutputs a task has put on the results channel
EmitCount(t) == Cardinality({i \in 1 .. Len(tasks[t].trace) : tasks[t].trace[i] = "Emit"})
Started(t) == \E i \in 1 .. Len(tasks[t].trace) : tasks[t].trace[i] = "Start"

\* C39: an execution that was started has emitted exactly one ActionOutput
\* when execute() has returned and the output is sent, and never more than
\* one; the results channel changes only by an emission at its end or by
\* the drain taking its oldest output, so every output is taken for its post
\* once, in the order of emission, and the drain puts nothing back.
C39_OneOutputPostedOnce ==
    [][/\ \A t \in DOMAIN tasks' :
              /\ EmitCount(t)' <= 1
              /\ (Started(t)' /\ tasks'[t].pc \in {"active", "done"}) => EmitCount(t)' = 1
              /\ ~Started(t)' => EmitCount(t)' = 0
       /\ actionOutputs' # actionOutputs =>
              \/ /\ actionOutputs # <<>>
                 /\ actionOutputs' = Tail(actionOutputs)
                 /\ tasks' = tasks
              \/ \E t \in DOMAIN tasks :
                    /\ tasks[t].pc = "send"
                    /\ tasks'[t].pc = "active"
                    /\ EmitCount(t)' = EmitCount(t) + 1
                    /\ actionOutputs' =
                          Append(actionOutputs,
                                 ActionOutputMessage(EventOfTask(t), tasks[t].out))]_vars

C39_Witness ==
    /\ actionOutputs = <<>>
    /\ Len(tasks) = 2
    /\ \A t \in TaskIds : tasks[t].exit = "executed" /\ Started(t) /\ EmitCount(t) = 1

\* the file records exactly the keys of the index
Consistent(f, m) == f.exists /\ RecordedIds(f) = DOMAIN m

\* the steps of the store loop in which every file operation worked: the
\* load read the file or created it, the persist appended its line, the
\* compaction removed the file and wrote it again
LoadWorked ==
    /\ spc = "load" /\ spc' = "idle"
    /\ file'.exists
    /\ file.lines # <<>> => index' # EmptyMap
PersistWorked == spc = "apply" /\ spc' = "idle" /\ file.exists /\ file' # file
CompactionWorked == CompactionStep /\ file.exists /\ file'.exists /\ file' # file

\* C40: the file is written only by steps of the store loop, a compaction
\* never runs while a persist request is being served, and as long as no
\* file operation fails the eventIds recorded in the file are the keys of
\* the index after every step of the loop.
C40_FileMirrorsIndex ==
    [][/\ file' # file => (spc = "load" \/ spc = "apply" \/ CompactionStep)
       /\ CompactionStep => (spc = "idle" /\ spc' = "idle" /\ spending = "")
       /\ (spc = "apply" /\ spc' = "idle") => tickPending' = tickPending
       /\ LoadWorked => Consistent(file', index')
       /\ (Consistent(file, index) /\ PersistWorked) => Consistent(file', index')
       /\ (Consistent(file, index) /\ CompactionWorked) => Consistent(file', index')]_vars

\* after a load, a persist and a compaction that worked: the entry loaded
\* from the file has been purged from both, the new one is in both
C40_Witness ==
    /\ Consistent(file, index)
    /\ spc = "idle"
    /\ ticks >= 1 /\ ~tickPending
    /\ DOMAIN index = {"E2"}
    /\ \E t \in TaskIds : tasks[t].exit = "executed" /\ EventOfTask(t).EventId = "E2"
    /\ \E t \in TaskIds : tasks[t].exit = "duplicate" /\ EventOfTask(t).EventId = "E1"

============================================================================
